---- MODULE Spec2Model ----
(***************************************************************************)
(* A model of rivus (tum-ens/rivus): the construction of the mixed-integer *)
(* linear programme by create_model (src/rivus/main/rivus.py), and the     *)
(* variable assignments that satisfy the constraints it generates.         *)
(*                                                                         *)
(* create_model is one pass over its input tables.  Its phases are the     *)
(* actions of the model, in source order:                                  *)
(*   ClassifyHubs  -> DerivePeak -> DeriveGraph -> DeriveSets              *)
(*                 -> DeclareConstraints -> (Solve)                        *)
(* A phase that raises (a pandas KeyError) ends the call: pc = "failed".   *)
(*                                                                         *)
(* Numbers.  Ratios of the process-commodity table are numerators over     *)
(* RatioDen (ratio 1 is RatioDen, ratio 0.5 is RatioDen \div 2); the loss  *)
(* term length * loss-var is a numerator over LossDen.  Inequalities of    *)
(* the programme are multiplied by these denominators, which leaves their  *)
(* truth unchanged.                                                        *)
(***************************************************************************)
EXTENDS Integers, Sequences, FiniteSets, TLC

VARIABLES
    pc,                 \* position in create_model / the solve call
    err,                \* name of the phase that raised, "" if none
    data,               \* the data dict: commodity, process, process_commodity,
                        \* time, area_demand (and hub, vertex, edge once stored)
    vertex,             \* the caller's vertex table
    edge,               \* the caller's edge table
    r_in, r_out,        \* m.r_in, m.r_out: (process, commodity) -> ratio
    hub,                \* index of the hub table
    peak,               \* m.peak: rows keyed by (Vertex1, Vertex2)
    arcs,               \* the list arcs
    neighbours,         \* m.neighbours: dict vertex -> list of vertices
    sets,               \* co_demand, co_transportable, co_source
    cons,               \* the constraint families generated so far
    sol,                \* the variable assignment returned by the solver
    call                \* a call of another function of the repository:
                        \* its name, its arguments and what it returned

vars == <<pc, err, data, vertex, edge, r_in, r_out, hub, peak, arcs,
          neighbours, sets, cons, sol, call>>

----------------------------------------------------------------------------
(* Bounds of the model *)

NumVertex == 3          \* vertex ids are 1..NumVertex
MaxEdgeRows == 2        \* rows of the edge table
MaxArea == 1            \* an area figure is in 0..MaxArea
MaxIntensity == 2       \* a peak intensity is in 1..MaxIntensity
MaxScale == 2           \* a time-table scale factor is in 0..MaxScale
MaxVal == 2             \* a solver value is in 0..MaxVal

RatioDen == 2           \* ratios are numerators over RatioDen
LossDen == 2            \* length * loss-var is a numerator over LossDen

Commodity == {"Gas", "Heat"}
Process == {"plant", "boiler"}
AreaType == {"res", "ind"}
Time == {1}
Vertex == 1..NumVertex

----------------------------------------------------------------------------
(* Helpers on finite sets, sequences and partial functions *)

RECURSIVE SumOver(_, _)
SumOver(f, S) ==
    IF S = {} THEN 0
    ELSE LET x == CHOOSE y \in S : TRUE
         IN  f[x] + SumOver(f, S \ {x})

Range(s) == {s[k] : k \in DOMAIN s}


----------------------------------------------------------------------------
(* Technology Classifier: create_model, lines 127-145 *)

\* process_commodity.xs(direction, level='Direction')['ratio']:
\* the (process, commodity) -> ratio series of one direction
xs(process_commodity, direction) ==
    [k \in {<<q[1], q[2]>> : q \in {d \in DOMAIN process_commodity : d[3] = direction}}
        |-> process_commodity[<<k[1], k[2], direction>>]]

\* xs raises KeyError when no row of the table has the direction
xs_raises(process_commodity, direction) ==
    ~ \E d \in DOMAIN process_commodity : d[3] = direction

\* the commodities of the tuples of process p in a ratio series: r.loc[p].index
loc_index(r, p) == {k[2] : k \in {d \in DOMAIN r : d[1] = p}}

\* r.loc[p] raises KeyError when the series has no tuple of p
loc_raises(r, p) == loc_index(r, p) = {}

\* m.r_in.groupby(level='Process').count()
groupby_count(r, p) == Cardinality(loc_index(r, p))

\* m.r_in.groupby(level='Process').sum(), a numerator over RatioDen
groupby_sum(r, p) == SumOver([co \in loc_index(r, p) |-> r[<<p, co>>]], loc_index(r, p))

has_cost_inv_fix_0(process, p) == process[p].cost_inv_fix = 0

has_cap_min_0(process, p) == process[p].cap_min = 0

\* a process without 'In' tuples is absent from the grouped series; the
\* aligned & fills the missing entry with False
has_one_input(r, p) == groupby_count(r, p) = 1

has_r_in_1(r, p) == loc_index(r, p) # {} /\ groupby_sum(r, p) = RatioDen

\* the superseded three-condition rule: the ratio of the input is not checked
is_hub_three_conditions(process, r, p) ==
    /\ has_cost_inv_fix_0(process, p)
    /\ has_cap_min_0(process, p)
    /\ has_one_input(r, p)

is_hub(process, r, p) ==
    /\ has_cost_inv_fix_0(process, p)
    /\ has_cap_min_0(process, p)
    /\ has_one_input(r, p)
    /\ has_r_in_1(r, p)

\* hub = process[is_hub.reindex(process.index)], its index
hub_index(process, r) == {p \in DOMAIN process : is_hub(process, r, p)}

ClassifyHubs ==
    /\ pc = "start"
    /\ IF xs_raises(data.process_commodity, "In")
          \/ xs_raises(data.process_commodity, "Out")
       THEN /\ pc' = "failed"
            /\ err' = "xs"
            /\ UNCHANGED <<r_in, r_out, hub, data>>
       ELSE /\ r_in' = xs(data.process_commodity, "In")
            /\ r_out' = xs(data.process_commodity, "Out")
            /\ hub' = hub_index(data.process, xs(data.process_commodity, "In"))
            /\ data' = ("hub" :> hub_index(data.process, xs(data.process_commodity, "In")))
                        @@ data
            /\ pc' = "peak"
            /\ err' = err
    /\ UNCHANGED <<vertex, edge, peak, arcs, neighbours, sets, cons, sol, call>>

----------------------------------------------------------------------------
(* Demand Aggregator: create_model, lines 147-172 *)

\* area_types = list(area_demand.index.levels[0])
area_types(area_demand) == {k[1] : k \in DOMAIN area_demand}

\* edge.columns.intersection(area_types): the columns of edge_areas
edge_areas_columns(e, area_demand) == e.cols \cap area_types(area_demand)

\* area_demand[column].loc[series.name].index: the commodities of an area type
intensity_index(area_demand, ty) == {k[2] : k \in {d \in DOMAIN area_demand : d[1] = ty}}

\* multiply_by_area_demand(series, 'peak'), taken at (commodity, edge row):
\* the intensity of the area type times the area of the row
multiply_by_area_demand(area_demand, ty, row, co) == area_demand[<<ty, co>>] * row.area[ty]

\* the columns of the unstacked frame: every commodity of some selected area type
peak_columns(e, area_demand) ==
    UNION {intensity_index(area_demand, ty) : ty \in edge_areas_columns(e, area_demand)}

\* .sum(axis=1) at (commodity, edge row): the area types without the commodity
\* hold no value there and are skipped
sum_axis1(e, area_demand, row, co) ==
    LET tys == {ty \in edge_areas_columns(e, area_demand) :
                    co \in intensity_index(area_demand, ty)}
    IN  SumOver([ty \in tys |-> multiply_by_area_demand(area_demand, ty, row, co)], tys)

\* The per-column results of apply are combined on the union of their
\* (Commodity, edge label) indexes.  Equal indexes are kept as they are, in
\* the row order of the edge table; unequal ones are united, which sorts them.
union_sorts(e, area_demand) ==
    \E a, b \in edge_areas_columns(e, area_demand) :
        intensity_index(area_demand, a) # intensity_index(area_demand, b)

\* position of row k of the edge table among the rows sorted by index label
label_rank(rows, k) == Cardinality({j \in DOMAIN rows : rows[j].Edge < rows[k].Edge}) + 1

\* .unstack('Commodity'): one row per edge label, in the order of the
\* combined index; the sequence of the edge-table rows it was computed from
unstack_rows(e, area_demand) ==
    IF union_sorts(e, area_demand)
    THEN [pos \in DOMAIN e.rows |->
            e.rows[CHOOSE k \in DOMAIN e.rows : label_rank(e.rows, k) = pos]]
    ELSE e.rows

\* m.peak.index = edge.index: row pos of the frame is relabelled with the
\* (Vertex1, Vertex2) pair of row pos of the edge table
peak_reindexed(e, area_demand) ==
    [pos \in DOMAIN e.rows |->
        [Vertex1 |-> e.rows[pos].Vertex1,
         Vertex2 |-> e.rows[pos].Vertex2,
         val |-> [co \in peak_columns(e, area_demand) |->
                    sum_axis1(e, area_demand, unstack_rows(e, area_demand)[pos], co)]]]

\* lexicographic order of the (Vertex1, Vertex2) index
key_less(a, b) ==
    \/ a.Vertex1 < b.Vertex1
    \/ a.Vertex1 = b.Vertex1 /\ a.Vertex2 < b.Vertex2

key_equal(a, b) == a.Vertex1 = b.Vertex1 /\ a.Vertex2 = b.Vertex2

\* sort_index(inplace=True): a stable sort of the rows by their index
sort_index(rows) ==
    LET place(k) == Cardinality({j \in DOMAIN rows : key_less(rows[j], rows[k])})
                    + Cardinality({j \in DOMAIN rows : j < k /\ key_equal(rows[j], rows[k])})
                    + 1
    IN  [pos \in DOMAIN rows |-> rows[CHOOSE k \in DOMAIN rows : place(k) = pos]]

\* m.peak after lines 160-168
derive_peak(e, area_demand) ==
    [columns |-> peak_columns(e, area_demand),
     rows |-> sort_index(peak_reindexed(e, area_demand))]

\* With no selected column, apply returns an empty frame, its row sums carry
\* no 'Commodity' level, and unstack('Commodity') raises
unstack_raises(e, area_demand) == edge_areas_columns(e, area_demand) = {}

\* the rows of m.peak under the index (i, j): m.peak.loc[i, j]
peak_loc(pk, i, j) == {k \in DOMAIN pk.rows : pk.rows[k].Vertex1 = i /\ pk.rows[k].Vertex2 = j}

\* set_index(..., inplace=True) of a table that no longer has its key
\* columns, because an earlier call made them the index, raises KeyError
set_index_raises(table) == table.indexed

DerivePeak ==
    /\ pc = "peak"
    /\ IF unstack_raises(edge, data.area_demand)
       THEN /\ pc' = "failed"
            /\ err' = "unstack"
            /\ UNCHANGED <<peak, vertex, edge, data>>
       ELSE IF set_index_raises(vertex) \/ set_index_raises(edge)
       THEN /\ pc' = "failed"
            /\ err' = "set_index"
            /\ UNCHANGED <<peak, vertex, edge, data>>
       ELSE /\ peak' = derive_peak(edge, data.area_demand)
            /\ vertex' = [vertex EXCEPT !.indexed = TRUE]
            /\ edge' = [edge EXCEPT !.indexed = TRUE]
            /\ data' = ("vertex" :> [vertex EXCEPT !.indexed = TRUE])
                        @@ ("edge" :> [edge EXCEPT !.indexed = TRUE])
                        @@ data
            /\ pc' = "graph"
            /\ err' = err
    /\ UNCHANGED <<r_in, r_out, hub, arcs, neighbours, sets, cons, sol, call>>

----------------------------------------------------------------------------
(* Graph Deriver: create_model, lines 177-184 *)

\* edge.index: the (Vertex1, Vertex2) pairs in row order
edge_index(e) == [k \in DOMAIN e.rows |-> <<e.rows[k].Vertex1, e.rows[k].Vertex2>>]

\* only the orientation stored in the edge table
arcs_forward_only(index) == index

\* arcs = [arc for (v1, v2) in edge.index for arc in ((v1, v2), (v2, v1))]
arcs_of(index) ==
    [n \in 1..(2 * Len(index)) |->
        IF n % 2 = 1
        THEN <<index[(n + 1) \div 2][1], index[(n + 1) \div 2][2]>>
        ELSE <<index[n \div 2][2], index[n \div 2][1]>>]

\* the neighbour lists filled from the first arc of every edge only
RECURSIVE neighbours_one_way(_, _)
neighbours_one_way(as, n) ==
    IF n = 0 THEN << >>
    ELSE LET prev == neighbours_one_way(as, n - 1)
             v1 == as[n][1]
             v2 == as[n][2]
         IN  IF n % 2 = 0 THEN prev
             ELSE IF v1 \in DOMAIN prev
             THEN [prev EXCEPT ![v1] = Append(@, v2)]
             ELSE [v \in DOMAIN prev \cup {v1} |->
                      IF v = v1 THEN <<v2>> ELSE prev[v]]

\* for (v1, v2) in arcs: m.neighbours.setdefault(v1, []); m.neighbours[v1].append(v2)
RECURSIVE neighbours_of(_, _)
neighbours_of(as, n) ==
    IF n = 0 THEN << >>
    ELSE LET prev == neighbours_of(as, n - 1)
             v1 == as[n][1]
             v2 == as[n][2]
         IN  IF v1 \in DOMAIN prev
             THEN [prev EXCEPT ![v1] = Append(@, v2)]
             ELSE [v \in DOMAIN prev \cup {v1} |->
                      IF v = v1 THEN <<v2>> ELSE prev[v]]

DeriveGraph ==
    /\ pc = "graph"
    /\ arcs' = arcs_of(edge_index(edge))
    /\ neighbours' = neighbours_of(arcs', Len(arcs'))
    /\ pc' = "sets"
    /\ UNCHANGED <<err, data, vertex, edge, r_in, r_out, hub, peak, sets, cons, sol,
                   call>>

----------------------------------------------------------------------------
(* Commodity subsets: create_model, lines 186-203 *)

\* co_demand = set(area_demand.index.get_level_values('Commodity'))
co_demand_of(area_demand) == {k[2] : k \in DOMAIN area_demand}

\* is_transportable = commodity['cap-max'] > 0
co_transportable_of(commodity) == {co \in DOMAIN commodity : commodity[co].cap_max > 0}

\* co_source = commodity.index.intersection(vertex.columns)
co_source_of(commodity, v) == DOMAIN commodity \cap v.cols

\* no_source_commodities = commodity.index.difference(vertex.columns)
no_source_commodities(commodity, v) == DOMAIN commodity \ v.cols

\* the vertex table without the added columns
vertex_as_passed(commodity, v) == v

\* for co in no_source_commodities: vertex[co] = 0
zero_fill(commodity, v) ==
    [v EXCEPT !.cols = v.cols \cup no_source_commodities(commodity, v),
              !.rows = [id \in DOMAIN v.rows |->
                          [co \in v.cols \cup no_source_commodities(commodity, v) |->
                              IF co \in v.cols THEN v.rows[id][co] ELSE 0]]]

\* A cell of the column 'allowed-max': a number, infinity, or an empty
\* cell, which pandas reads as NaN
Num(n) == [kind |-> "num", val |-> n]
Inf == [kind |-> "inf", val |-> 0]
NaN == [kind |-> "nan", val |-> 0]

\* math.isinf
isinf(a) == a.kind = "inf"

\* n & b of an integer and a boolean
int_and(n, b) == IF b THEN n % 2 ELSE 0

\* a > n of a float and an integer: false for NaN
float_gt(a, n) == a.kind = "inf" \/ (a.kind = "num" /\ a.val > n)

\* has_allowed_max = (commodity['allowed-max'] > 0 &
\*                    ~commodity['allowed-max'].apply(math.isinf))
\* where & binds tighter than >
has_allowed_max(commodity, co) ==
    float_gt(commodity[co].allowed_max, int_and(0, ~ isinf(commodity[co].allowed_max)))

\* co_allowed_max = commodity[has_allowed_max].index
co_allowed_max_of(commodity) == {co \in DOMAIN commodity : has_allowed_max(commodity, co)}

DeriveSets ==
    /\ pc = "sets"
    /\ sets' = [co_demand |-> co_demand_of(data.area_demand),
                co_transportable |-> co_transportable_of(data.commodity),
                co_source |-> co_source_of(data.commodity, vertex),
                co_allowed_max |-> co_allowed_max_of(data.commodity)]
    /\ vertex' = zero_fill(data.commodity, vertex)
    /\ pc' = "model"
    /\ UNCHANGED <<err, data, edge, r_in, r_out, hub, peak, arcs, neighbours, cons, sol,
                   call>>

----------------------------------------------------------------------------
(* Index sets of the model: create_model, lines 212-280 *)

m_commodity == DOMAIN data.commodity
m_process == DOMAIN data.process
m_time == DOMAIN data.time.rows
m_vertex == DOMAIN vertex.rows
m_edge == Range(edge_index(edge))
m_arc == Range(arcs)

\* m.edge and m.arc are declared within m.vertex * m.vertex
within_raises == \E e \in m_edge : e[1] \notin m_vertex \/ e[2] \notin m_vertex

\* line_length(m.params['edge'].loc[i, j]['geometry'])
line_length(i, j) ==
    LET k == CHOOSE n \in DOMAIN edge.rows :
                 edge.rows[n].Vertex1 = i /\ edge.rows[n].Vertex2 = j
    IN  edge.rows[k].length

----------------------------------------------------------------------------
(* Balance evaluators: lines 588-621.  x is a variable assignment.  The     *)
(* hub and process balances are numerators over RatioDen; Epsilon_in and   *)
(* Epsilon_out are held in units of 1/RatioDen.                            *)

\* hub_balance(m, i, j, co, t)
hub_balance(x, i, j, co, t) ==
    LET term(h) ==
            (IF co \in loc_index(r_out, h)
             THEN x.Epsilon_hub[<<i, j, h, t>>] * r_out[<<h, co>>] ELSE 0)
          - (IF co \in loc_index(r_in, h)
             THEN x.Epsilon_hub[<<i, j, h, t>>] * r_in[<<h, co>>] ELSE 0)
    IN  SumOver([h \in hub |-> term(h)], hub)

\* r_in.loc[h] and r_out.loc[h] are looked up for every hub
hub_balance_raises == \E h \in hub : loc_raises(r_in, h) \/ loc_raises(r_out, h)

\* flow_balance(m, v, co, t): one term per entry of the neighbour list
RECURSIVE flow_balance_upto(_, _, _, _, _)
flow_balance_upto(x, v, co, t, n) ==
    IF n = 0 THEN 0
    ELSE LET w == neighbours[v][n]
         IN  flow_balance_upto(x, v, co, t, n - 1)
             + x.Pot[<<w, v, co, t>>] - x.Pin[<<v, w, co, t>>]

flow_balance(x, v, co, t) == flow_balance_upto(x, v, co, t, Len(neighbours[v]))

\* m.neighbours[v] raises KeyError for a vertex that starts no arc
flow_balance_raises(v) == v \notin DOMAIN neighbours

\* process_balance(m, v, co, t)
process_balance(x, v, co, t) ==
    LET term(p) ==
            (IF co \in loc_index(r_out, p) THEN x.Epsilon_out[<<v, p, co, t>>] ELSE 0)
          - (IF co \in loc_index(r_in, p) THEN x.Epsilon_in[<<v, p, co, t>>] ELSE 0)
    IN  SumOver([p \in m_process |-> term(p)], m_process)

\* r_in.loc[p] and r_out.loc[p] are looked up for every process
process_balance_raises == \E p \in m_process : loc_raises(r_in, p) \/ loc_raises(r_out, p)

\* find_matching_edge(m, i, j)
find_matching_edge(i, j) == IF <<i, j>> \in m_edge THEN <<i, j>> ELSE <<j, i>>

----------------------------------------------------------------------------
(* Constraint rules: lines 453-537 *)

\* m.peak.loc[i,j][co]
peak_at(i, j, co) == peak.rows[CHOOSE k \in peak_loc(peak, i, j) : TRUE].val[co]

\* m.params['time'].loc[t][co]: the time table's column named like the commodity
time_scale(t, co) == data.time.rows[t][co]

\* the peak itself, not scaled to the time step
peak_satisfaction_rhs_unscaled(i, j, co, t) == peak_at(i, j, co)

\* the right-hand side of peak_satisfaction_rule
peak_satisfaction_rhs(i, j, co, t) == peak_at(i, j, co) * time_scale(t, co)

peak_satisfaction_raises(co) ==
    \/ hub_balance_raises
    \/ co \notin peak.columns
    \/ co \notin data.time.cols

\* m.peak.loc[i,j] of an index pair that two rows carry is a frame, not a
\* row; its [co] is a Series, which the relational expression refuses
peak_loc_ambiguous(i, j) == Cardinality(peak_loc(peak, i, j)) > 1

peak_satisfaction_rule(x, i, j, co, t) ==
    hub_balance(x, i, j, co, t) + RatioDen * x.Sigma[<<i, j, co, t>>]
        >= RatioDen * peak_satisfaction_rhs(i, j, co, t)

\* the edge equation of the transportable commodities alone
edge_equation_of_transportable(x, i, j, co, t) ==
    co \in sets.co_transportable =>
        LET length == line_length(i, j)
            flow_in == (LossDen - length * data.commodity[co].loss_var)
                       * (x.Pin[<<i, j, co, t>>] + x.Pin[<<j, i, co, t>>])
            flow_out == x.Pot[<<i, j, co, t>>] + x.Pot[<<j, i, co, t>>]
            fixed_losses == (x.Psi[<<i, j, co, t>>] + x.Psi[<<j, i, co, t>>])
                            * length * data.commodity[co].loss_fix
        IN  LossDen * x.Sigma[<<i, j, co, t>>]
                <= flow_in - LossDen * flow_out - LossDen * fixed_losses

edge_equation_rule(x, i, j, co, t) ==
    IF co \in sets.co_transportable
    THEN LET length == line_length(i, j)
             flow_in == (LossDen - length * data.commodity[co].loss_var)
                        * (x.Pin[<<i, j, co, t>>] + x.Pin[<<j, i, co, t>>])
             flow_out == x.Pot[<<i, j, co, t>>] + x.Pot[<<j, i, co, t>>]
             fixed_losses == (x.Psi[<<i, j, co, t>>] + x.Psi[<<j, i, co, t>>])
                             * length * data.commodity[co].loss_fix
         IN  LossDen * x.Sigma[<<i, j, co, t>>]
                 <= flow_in - LossDen * flow_out - LossDen * fixed_losses
    ELSE x.Sigma[<<i, j, co, t>>] <= 0

arc_flow_by_capacity_rule(x, i, j, co, t) ==
    LET e == find_matching_edge(i, j)
    IN  x.Pin[<<i, j, co, t>>] <= x.Pmax[<<e[1], e[2], co>>]

arc_flow_unidirectionality_rule(x, i, j, co, t) ==
    x.Pin[<<i, j, co, t>>] <= data.commodity[co].cap_max * x.Psi[<<i, j, co, t>>]

\* each indicator bounded on its own, the opposite arc not counted
arc_unidirectionality_per_arc(x, i, j, co, t) == x.Psi[<<i, j, co, t>>] <= 1

arc_unidirectionality_rule(x, i, j, co, t) ==
    x.Psi[<<i, j, co, t>>] + x.Psi[<<j, i, co, t>>] <= 1

edge_capacity_rule(x, i, j, co) ==
    x.Pmax[<<i, j, co>>] <= x.Xi[<<i, j, co>>] * data.commodity[co].cap_max

hub_supply_rule(x, i, j, co, t) ==
    - hub_balance(x, i, j, co, t) <= RatioDen * x.Sigma[<<i, j, co, t>>]

hub_output_by_capacity_rule(x, i, j, h, t) ==
    x.Epsilon_hub[<<i, j, h, t>>] <= x.Kappa_hub[<<i, j, h>>]

hub_capacity_rule(x, i, j, h) ==
    x.Kappa_hub[<<i, j, h>>] <= data.process[h].cap_max

\* m.params['vertex'].loc[v][co]: the copy stored before the zero fill
source_capacity(v, co) == data.vertex.rows[v][co]

vertex_equation_rule(x, v, co, t) ==
    LET flow_required == IF co \in sets.co_transportable
                         THEN - flow_balance(x, v, co, t) ELSE 0
        process_required == - process_balance(x, v, co, t)
    IN  IF co \in sets.co_source
        THEN RatioDen * x.Rho[<<v, co, t>>]
                 >= RatioDen * flow_required + process_required
        ELSE 0 >= RatioDen * flow_required + process_required

vertex_equation_raises(v, co) ==
    \/ co \in sets.co_transportable /\ flow_balance_raises(v)
    \/ process_balance_raises

\* the source stream bounded by the largest capacity of the vertex table
source_vertices_table_maximum(x, v, co, t) == x.Rho[<<v, co, t>>] <= MaxVal

source_vertices_rule(x, v, co, t) == x.Rho[<<v, co, t>>] <= source_capacity(v, co)

\* commodity_maximum_rule: the time-weighted generation of co, a numerator
\* over RatioDen, against the allowed maximum
total_generation(x, co) ==
    SumOver([t \in m_time |->
                data.time.rows[t]["weight"]
                * (SumOver([v \in m_vertex |-> process_balance(x, v, co, t)], m_vertex)
                   + SumOver([e \in m_edge |-> hub_balance(x, e[1], e[2], co, t)], m_edge))],
            m_time)

commodity_maximum_rule(x, co) ==
    LET allowed == data.commodity[co].allowed_max
    IN  \/ allowed.kind = "inf"
        \/ allowed.kind = "num" /\ total_generation(x, co) <= RatioDen * allowed.val

process_throughput_by_capacity_rule(x, v, p, t) ==
    x.Tau[<<v, p, t>>] <= x.Kappa_process[<<v, p>>]

process_capacity_min_rule(x, v, p) ==
    x.Kappa_process[<<v, p>>] >= x.Phi[<<v, p>>] * data.process[p].cap_min

process_capacity_unbounded(x, v, p) == TRUE

process_capacity_max_rule(x, v, p) ==
    x.Kappa_process[<<v, p>>] <= x.Phi[<<v, p>>] * data.process[p].cap_max

process_input_rule(x, v, p, co, t) ==
    x.Epsilon_in[<<v, p, co, t>>] = x.Tau[<<v, p, t>>] * r_in[<<p, co>>]

process_output_rule(x, v, p, co, t) ==
    x.Epsilon_out[<<v, p, co, t>>] = x.Tau[<<v, p, t>>] * r_out[<<p, co>>]

----------------------------------------------------------------------------
(* Constraint declarations: create_model, lines 357-448.  A family is      *)
(* built by calling its rule on every index of its domain; the first rule  *)
(* that raises ends create_model.                                          *)

peak_satisfaction_index == {<<e[1], e[2], co, t>> : e \in m_edge, co \in sets.co_demand, t \in m_time}
edge_equation_index == {<<e[1], e[2], co, t>> : e \in m_edge, co \in m_commodity, t \in m_time}
arc_index == {<<a[1], a[2], co, t>> : a \in m_arc, co \in sets.co_transportable, t \in m_time}
edge_capacity_index == {<<e[1], e[2], co>> : e \in m_edge, co \in sets.co_transportable}
hub_index_time == {<<e[1], e[2], h, t>> : e \in m_edge, h \in hub, t \in m_time}
hub_capacity_index == {<<e[1], e[2], h>> : e \in m_edge, h \in hub}
vertex_equation_index == {<<v, co, t>> : v \in m_vertex, co \in m_commodity, t \in m_time}
source_vertices_index == {<<v, co, t>> : v \in m_vertex, co \in sets.co_source, t \in m_time}
commodity_maximum_index == sets.co_allowed_max
process_index == {<<v, p>> : v \in m_vertex, p \in m_process}
process_time_index == {<<v, p, t>> : v \in m_vertex, p \in m_process, t \in m_time}
process_input_index == {<<v, k[1], k[2], t>> : v \in m_vertex, k \in DOMAIN r_in, t \in m_time}
process_output_index == {<<v, k[1], k[2], t>> : v \in m_vertex, k \in DOMAIN r_out, t \in m_time}

\* the first declaration that raises, "" if none does
declaration_error ==
    IF within_raises THEN "within"
    ELSE IF \E k \in peak_satisfaction_index :
                peak_satisfaction_raises(k[3]) \/ peak_loc_ambiguous(k[1], k[2])
    THEN "peak_satisfaction"
    ELSE IF edge_equation_index # {} /\ hub_balance_raises
    THEN "hub_supply"
    ELSE IF \E k \in vertex_equation_index : vertex_equation_raises(k[1], k[2])
    THEN "vertex_equation"
    ELSE ""

\* m.cost_type
cost_type == {"Inv", "Fix", "Var"}

\* the generated families: the index domain of each, and for peak
\* satisfaction the right-hand side of each generated inequality
declared_constraints ==
    [peak_satisfaction |->
        [k \in peak_satisfaction_index |-> peak_satisfaction_rhs(k[1], k[2], k[3], k[4])],
     edge_equation |-> edge_equation_index,
     arc_flow_by_capacity |-> arc_index,
     arc_flow_unidirectionality |-> arc_index,
     arc_unidirectionality |-> arc_index,
     edge_capacity |-> edge_capacity_index,
     hub_supply |-> edge_equation_index,
     hub_output_by_capacity |-> hub_index_time,
     hub_capacity |-> hub_capacity_index,
     vertex_equation |-> vertex_equation_index,
     source_vertices |-> source_vertices_index,
     commodity_maximum |-> commodity_maximum_index,
     process_throughput_by_capacity |-> process_time_index,
     process_capacity_min |-> process_index,
     process_capacity_max |-> process_index,
     process_input |-> process_input_index,
     process_output |-> process_output_index,
     def_costs |-> cost_type]

process_commodity_time_index ==
    {<<v, p, co, t>> : v \in m_vertex, p \in m_process, co \in m_commodity, t \in m_time}

\* the index domain of every variable family: lines 285-355
declared_variables ==
    [Sigma |-> edge_equation_index,
     Pin |-> arc_index,
     Pot |-> arc_index,
     Psi |-> arc_index,
     Pmax |-> edge_capacity_index,
     Xi |-> edge_capacity_index,
     Rho |-> source_vertices_index,
     Kappa_hub |-> hub_capacity_index,
     Epsilon_hub |-> hub_index_time,
     Kappa_process |-> process_index,
     Phi |-> process_index,
     Tau |-> process_time_index,
     Epsilon_in |-> process_commodity_time_index,
     Epsilon_out |-> process_commodity_time_index,
     costs |-> cost_type]

DeclareConstraints ==
    /\ pc = "model"
    /\ IF declaration_error # ""
       THEN /\ pc' = "failed"
            /\ err' = declaration_error
            /\ cons' = cons
       ELSE /\ cons' = declared_constraints @@ declared_variables
            /\ pc' = "done"
            /\ err' = err
    /\ UNCHANGED <<data, vertex, edge, r_in, r_out, hub, peak, arcs, neighbours, sets, sol,
                   call>>

----------------------------------------------------------------------------
(* Objective: lines 541-583.  x is a variable assignment.                  *)

\* m.params['time'].loc[t]['weight']
weight(t) == data.time.rows[t].weight

\* sum(... for (i,j) in m.edge for h in m.hub)
sum_edge_hub(f(_, _, _)) ==
    LET S == {<<e[1], e[2], h>> : e \in m_edge, h \in hub}
    IN  SumOver([k \in S |-> f(k[1], k[2], k[3])], S)

\* sum(... for v in m.vertex for p in m.process)
sum_vertex_process(f(_, _)) ==
    LET S == m_vertex \X m_process
    IN  SumOver([k \in S |-> f(k[1], k[2])], S)

\* sum(... for (i,j) in m.edge for co in m.co_transportable)
sum_edge_transportable(f(_, _, _)) ==
    LET S == {<<e[1], e[2], co>> : e \in m_edge, co \in sets.co_transportable}
    IN  SumOver([k \in S |-> f(k[1], k[2], k[3])], S)

\* sum(... for v in m.vertex for co in m.co_source)
sum_vertex_source(f(_, _)) ==
    LET S == m_vertex \X sets.co_source
    IN  SumOver([k \in S |-> f(k[1], k[2])], S)

\* sum(... for t in m.time)
sum_time(f(_)) == SumOver([t \in m_time |-> f(t)], m_time)

cost_inv(x) ==
    LET hubs(i, j, h) == x.Kappa_hub[<<i, j, h>>] * data.process[h].cost_inv_var
        processes(v, p) == x.Kappa_process[<<v, p>>] * data.process[p].cost_inv_var
                         + x.Phi[<<v, p>>] * data.process[p].cost_inv_fix
        pipes(i, j, co) == (x.Pmax[<<i, j, co>>] * data.commodity[co].cost_inv_var
                            + x.Xi[<<i, j, co>>] * data.commodity[co].cost_inv_fix)
                           * line_length(i, j)
    IN  sum_edge_hub(hubs) + sum_vertex_process(processes) + sum_edge_transportable(pipes)

\* the superseded definition: a flat rate of the investment, here the
\* whole of it
cost_fix_flat_rate(x) == cost_inv(x)

cost_fix(x) ==
    LET hubs(i, j, h) == x.Kappa_hub[<<i, j, h>>] * data.process[h].cost_fix
        processes(v, p) == x.Kappa_process[<<v, p>>] * data.process[p].cost_fix
        pipes(i, j, co) == x.Pmax[<<i, j, co>>] * data.commodity[co].cost_fix
                           * line_length(i, j)
    IN  sum_edge_hub(hubs) + sum_vertex_process(processes) + sum_edge_transportable(pipes)

cost_var(x) ==
    LET hubs(i, j, h) ==
            LET at(t) == x.Epsilon_hub[<<i, j, h, t>>] * data.process[h].cost_var * weight(t)
            IN  sum_time(at)
        processes(v, p) ==
            LET at(t) == x.Tau[<<v, p, t>>] * data.process[p].cost_var * weight(t)
            IN  sum_time(at)
        sources(v, co) ==
            LET at(t) == x.Rho[<<v, co, t>>] * data.commodity[co].cost_var * weight(t)
            IN  sum_time(at)
    IN  sum_edge_hub(hubs) + sum_vertex_process(processes) + sum_vertex_source(sources)

\* the right-hand side of def_costs_rule(m, cost_type)
costs_sum(x, ct) ==
    CASE ct = "Inv" -> cost_inv(x)
      [] ct = "Fix" -> cost_fix(x)
      [] ct = "Var" -> cost_var(x)

\* def_costs_rule(m, cost_type)
def_costs_rule(x, ct) == x.costs[ct] = costs_sum(x, ct)

\* pyomo.summation(m.costs): the sum of the variable over its index set
summation(costs) == SumOver(costs, DOMAIN costs)

\* the objective without its fixed-cost term
obj_without_fix(x) == x.costs["Inv"] + x.costs["Var"]

\* obj_rule(m)
obj_rule(x) == summation(x.costs)

----------------------------------------------------------------------------
(* The solver, a black box: it returns any assignment of the declared      *)
(* variables (lines 285-355) that satisfies every generated constraint.    *)
(* Values are drawn from 0..MaxVal, indicators from {0, 1}.  Epsilon_in    *)
(* and Epsilon_out are fixed by the process input and output equations.    *)
(* The cost variables are fixed by their defining equations.              *)

Vals == 0..MaxVal
Binary == {0, 1}

sigma_index == edge_equation_index

satisfies_arcs(x) ==
    /\ \A k \in arc_index : arc_unidirectionality_rule(x, k[1], k[2], k[3], k[4])
    /\ \A k \in edge_capacity_index : edge_capacity_rule(x, k[1], k[2], k[3])
    /\ \A k \in arc_index : arc_flow_by_capacity_rule(x, k[1], k[2], k[3], k[4])
    /\ \A k \in arc_index : arc_flow_unidirectionality_rule(x, k[1], k[2], k[3], k[4])

satisfies_hubs(x) ==
    /\ \A k \in hub_index_time : hub_output_by_capacity_rule(x, k[1], k[2], k[3], k[4])
    /\ \A k \in hub_capacity_index : hub_capacity_rule(x, k[1], k[2], k[3])

satisfies_edges(x) ==
    /\ \A k \in peak_satisfaction_index : peak_satisfaction_rule(x, k[1], k[2], k[3], k[4])
    /\ \A k \in edge_equation_index : edge_equation_rule(x, k[1], k[2], k[3], k[4])
    /\ \A k \in edge_equation_index : hub_supply_rule(x, k[1], k[2], k[3], k[4])

satisfies_processes(x) ==
    /\ \A k \in process_time_index : process_throughput_by_capacity_rule(x, k[1], k[2], k[3])
    /\ \A k \in process_index : process_capacity_min_rule(x, k[1], k[2])
    /\ \A k \in process_index : process_capacity_max_rule(x, k[1], k[2])
    /\ \A k \in process_input_index : process_input_rule(x, k[1], k[2], k[3], k[4])
    /\ \A k \in process_output_index : process_output_rule(x, k[1], k[2], k[3], k[4])

satisfies_vertices(x) ==
    /\ \A k \in source_vertices_index : source_vertices_rule(x, k[1], k[2], k[3])
    /\ \A k \in vertex_equation_index : vertex_equation_rule(x, k[1], k[2], k[3])

\* every constraint of the model holds under x
satisfies(x) ==
    /\ satisfies_arcs(x)
    /\ satisfies_hubs(x)
    /\ satisfies_edges(x)
    /\ satisfies_processes(x)
    /\ satisfies_vertices(x)
    /\ \A co \in commodity_maximum_index : commodity_maximum_rule(x, co)
    /\ \A ct \in cost_type : def_costs_rule(x, ct)
    /\ \A ct \in cost_type : x.costs[ct] >= 0

\* The assignments are drawn family by family, and a draw is dropped as
\* soon as a constraint over the families drawn so far fails.  An edge
\* equation that fails with no outflow fails with every outflow, so inflows
\* are tried against it before the outflows are drawn.
hub_draws ==
    {x \in {[Kappa_hub |-> Kappa_hub, Epsilon_hub |-> Epsilon_hub] :
               Kappa_hub \in {kh \in [hub_capacity_index -> Vals] :
                                 \A k \in hub_capacity_index :
                                     hub_capacity_rule([Kappa_hub |-> kh], k[1], k[2], k[3])},
               Epsilon_hub \in [hub_index_time -> Vals]} :
        satisfies_hubs(x)}

sigma_draws ==
    {x \in {[Sigma |-> Sigma] @@ x1 : x1 \in hub_draws, Sigma \in [sigma_index -> Vals]} :
        /\ \A k \in peak_satisfaction_index :
              peak_satisfaction_rule(x, k[1], k[2], k[3], k[4])
        /\ \A k \in edge_equation_index : hub_supply_rule(x, k[1], k[2], k[3], k[4])
        /\ \A k \in edge_equation_index :
              k[3] \notin sets.co_transportable
                  => edge_equation_rule(x, k[1], k[2], k[3], k[4])}

edge_capacity_draws ==
    {x \in {[Xi |-> Xi, Pmax |-> Pmax] :
               Xi \in [edge_capacity_index -> Binary],
               Pmax \in [edge_capacity_index -> Vals]} :
        \A k \in edge_capacity_index : edge_capacity_rule(x, k[1], k[2], k[3])}

psi_draws ==
    {x \in {[Psi |-> Psi] : Psi \in [arc_index -> Binary]} :
        \A k \in arc_index : arc_unidirectionality_rule(x, k[1], k[2], k[3], k[4])}

pin_draws ==
    {x \in {[Pin |-> Pin] @@ x4 @@ x3 @@ x2 :
               x2 \in sigma_draws, x3 \in edge_capacity_draws, x4 \in psi_draws,
               Pin \in [arc_index -> Vals]} :
        /\ satisfies_arcs(x)
        /\ \A k \in edge_equation_index :
              edge_equation_rule([Pot |-> [a \in arc_index |-> 0]] @@ x,
                                 k[1], k[2], k[3], k[4])}

pot_draws ==
    {x \in {[Pot |-> Pot] @@ x5 : x5 \in pin_draws, Pot \in [arc_index -> Vals]} :
        satisfies_edges(x)}

process_capacity_draws ==
    {x \in {[Phi |-> Phi, Kappa_process |-> Kappa_process] :
               Phi \in [process_index -> Binary],
               Kappa_process \in [process_index -> Vals]} :
        /\ \A k \in process_index : process_capacity_min_rule(x, k[1], k[2])
        /\ \A k \in process_index : process_capacity_max_rule(x, k[1], k[2])}

\* Epsilon_in and Epsilon_out as process_input_rule and process_output_rule
\* fix them
tau_draws ==
    {x \in {[Tau |-> Tau,
             Epsilon_in |-> [k \in process_input_index |->
                                Tau[<<k[1], k[2], k[4]>>] * r_in[<<k[2], k[3]>>]],
             Epsilon_out |-> [k \in process_output_index |->
                                 Tau[<<k[1], k[2], k[4]>>] * r_out[<<k[2], k[3]>>]]]
            @@ x7 :
               x7 \in process_capacity_draws, Tau \in [process_time_index -> Vals]} :
        satisfies_processes(x)}

flow_draws ==
    {x \in {x8 @@ x6 : x6 \in pot_draws, x8 \in tau_draws} :
        \A k \in vertex_equation_index :
            k[2] \notin sets.co_source => vertex_equation_rule(x, k[1], k[2], k[3])}

\* costs as def_costs_rule fixes them
with_costs(x) == [costs |-> [ct \in cost_type |-> costs_sum(x, ct)]] @@ x

rho_draws ==
    {x \in {[Rho |-> Rho] : Rho \in [source_vertices_index -> Vals]} :
        \A k \in source_vertices_index : source_vertices_rule(x, k[1], k[2], k[3])}

source_draws ==
    {x \in {x10 @@ x9 : x9 \in flow_draws, x10 \in rho_draws} : satisfies_vertices(x)}

\* every assignment that satisfies every constraint
feasible == {x \in {with_costs(x11) : x11 \in source_draws} : satisfies(x)}

\* the solver returns a feasible assignment
Solve ==
    /\ pc = "done"
    /\ \E x \in feasible :
          /\ sol' = x
          /\ pc' = "solved"
    /\ UNCHANGED <<err, data, vertex, edge, r_in, r_out, hub, peak, arcs, neighbours,
                   sets, cons, call>>

\* the least value of the objective over the feasible assignments
least_cost(F) ==
    LET values == {obj_rule(x) : x \in F}
    IN  CHOOSE c \in values : \A d \in values : c <= d

\* the solver, run to optimality, returns a feasible assignment that
\* minimises the objective
Optimise ==
    /\ pc = "done"
    /\ \E F \in {feasible} :
       /\ F # {}
       /\ \E least \in {least_cost(F)} :
          \E x \in F :
             /\ obj_rule(x) = least
             /\ sol' = x
             /\ pc' = "solved"
    /\ UNCHANGED <<err, data, vertex, edge, r_in, r_out, hub, peak, arcs, neighbours,
                   sets, cons, call>>

----------------------------------------------------------------------------
(* Input tables.  create_model is called with the data dict of read_excel  *)
(* (lines 83-88) and the caller's vertex and edge tables.                  *)

Endpoints(rows) == {rows[k].Vertex1 : k \in DOMAIN rows} \cup {rows[k].Vertex2 : k \in DOMAIN rows}

\* a vertex table with the given ids and one source column, 'Gas'
VertexTable(ids, cap) ==
    [indexed |-> FALSE, cols |-> {"Gas"}, rows |-> [id \in ids |-> [co \in {"Gas"} |-> cap]]]

\* an edge table with the given rows and area-type columns
EdgeTable(cols, rows) == [indexed |-> FALSE, cols |-> cols, rows |-> rows]

EdgeRow(label, v1, v2, length, area) ==
    [Edge |-> label, Vertex1 |-> v1, Vertex2 |-> v2, length |-> length, area |-> area]

DefaultCommodity ==
    [co \in Commodity |->
        [cap_max |-> MaxVal, loss_fix |-> 0, loss_var |-> 0, allowed_max |-> Inf,
         cost_inv_var |-> 1, cost_inv_fix |-> 0, cost_fix |-> 0, cost_var |-> 1]]

DefaultProcess ==
    [p \in Process |->
        IF p = "plant"
        THEN [cost_inv_fix |-> 1, cap_min |-> 1, cap_max |-> MaxVal,
              cost_inv_var |-> 1, cost_fix |-> 0, cost_var |-> 0]
        ELSE [cost_inv_fix |-> 0, cap_min |-> 0, cap_max |-> MaxVal,
              cost_inv_var |-> 1, cost_fix |-> 0, cost_var |-> 0]]

DefaultProcessCommodity ==
    [k \in {<<p, "Gas", "In">> : p \in Process} \cup {<<p, "Heat", "Out">> : p \in Process}
        |-> RatioDen]

DefaultTime ==
    [cols |-> {"weight"} \cup Commodity,
     rows |-> [t \in Time |-> [c \in {"weight"} \cup Commodity |-> 1]]]

DefaultAreaDemand == [k \in {<<"res", "Heat">>} |-> 1]

DefaultEdge == EdgeTable({"res"}, <<EdgeRow(1, 1, 2, 1, [ty \in {"res"} |-> 1])>>)

InitOf(c, p, pcm, tm, ad, v, e) ==
    /\ pc = "start"
    /\ err = ""
    /\ data = [commodity |-> c, process |-> p, process_commodity |-> pcm,
               time |-> tm, area_demand |-> ad]
    /\ vertex = v
    /\ edge = e
    /\ r_in = << >>
    /\ r_out = << >>
    /\ hub = {}
    /\ peak = [columns |-> {}, rows |-> << >>]
    /\ arcs = << >>
    /\ neighbours = << >>
    /\ sets = [co_demand |-> {}, co_transportable |-> {}, co_source |-> {},
               co_allowed_max |-> {}]
    /\ cons = << >>
    /\ sol = << >>
    /\ call = [op |-> "create_model"]

NextBuild ==
    \/ ClassifyHubs
    \/ DerivePeak
    \/ DeriveGraph
    \/ DeriveSets
    \/ DeclareConstraints

----------------------------------------------------------------------------
(* Graph Deriver inputs: every edge table of up to MaxEdgeRows rows over   *)
(* the vertex ids, self-loops and repeated pairs included; the vertex      *)
(* table lists the endpoints, or every vertex id.                          *)

GraphRows(n) ==
    {[k \in 1..n |-> EdgeRow(k, q[k][1], q[k][2], 1, [ty \in {"res"} |-> 1])] :
        q \in [1..n -> Vertex \X Vertex]}

InitGraph ==
    \E n \in 1..MaxEdgeRows : \E rows \in GraphRows(n) :
    \E ids \in {Endpoints(rows), Vertex} :
        InitOf(DefaultCommodity, DefaultProcess, DefaultProcessCommodity, DefaultTime,
               DefaultAreaDemand, VertexTable(ids, MaxVal), EdgeTable({"res"}, rows))

SpecGraph == InitGraph /\ [][NextBuild]_vars

----------------------------------------------------------------------------
(* Technology Classifier inputs: every process has cost-inv-fix and        *)
(* cap-min in {0, 1} and, per commodity, no 'In' tuple or one with a ratio *)
(* in 1/RatioDen .. 1; its one 'Out' tuple is Heat at ratio 1.             *)

TechProcess ==
    {[p \in Process |-> [DefaultProcess[p] EXCEPT !.cost_inv_fix = f[p], !.cap_min = c[p]]] :
        f \in [Process -> {0, 1}], c \in [Process -> {0, 1}]}

InTupleChoices == [Process \X Commodity -> 0..RatioDen]

\* the process-commodity table of a choice: ratio 0 stands for no tuple
ProcessCommodityOf(choice) ==
    [k \in {<<q[1], q[2], "In">> : q \in {d \in Process \X Commodity : choice[d] > 0}}
           \cup {<<p, "Heat", "Out">> : p \in Process}
        |-> IF k[3] = "In" THEN choice[<<k[1], k[2]>>] ELSE RatioDen]

InitTech ==
    \E p \in TechProcess : \E choice \in InTupleChoices :
        InitOf(DefaultCommodity, p, ProcessCommodityOf(choice), DefaultTime,
               DefaultAreaDemand, VertexTable({1, 2}, MaxVal), DefaultEdge)

SpecTech == InitTech /\ [][NextBuild]_vars

----------------------------------------------------------------------------
(* Demand Aggregator inputs: up to MaxEdgeRows rows on distinct vertex     *)
(* pairs, in every row order and with every order of the index labels;     *)
(* every set of area-type columns with areas in 0..MaxArea; every          *)
(* non-empty area-demand table with intensities in 1..MaxIntensity.        *)

Injective(f) == \A a, b \in DOMAIN f : a # b => f[a] # f[b]

RingPairs == {<<k, (k % NumVertex) + 1>> : k \in Vertex}

DemandRows(n, cols) ==
    {[k \in 1..n |-> EdgeRow(label[k], q[k][1], q[k][2], 1, area[k])] :
        label \in {f \in [1..n -> 1..n] : Injective(f)},
        q \in {f \in [1..n -> RingPairs] : Injective(f)},
        area \in [1..n -> [cols -> 0..MaxArea]]}

\* the area-demand table of a choice: intensity 0 stands for no row
AreaDemandOf(choice) ==
    [k \in {d \in AreaType \X Commodity : choice[d] > 0} |-> choice[k]]

AreaDemandTables ==
    {AreaDemandOf(choice) : choice \in [AreaType \X Commodity -> 0..MaxIntensity]}
        \ {AreaDemandOf([d \in AreaType \X Commodity |-> 0])}

InitDemand ==
    \E n \in 1..MaxEdgeRows : \E cols \in SUBSET AreaType :
    \E rows \in DemandRows(n, cols) : \E ad \in AreaDemandTables :
        InitOf(DefaultCommodity, DefaultProcess, DefaultProcessCommodity, DefaultTime,
               ad, VertexTable(Endpoints(rows), MaxVal), EdgeTable(cols, rows))

SpecDemand == InitDemand /\ [][NextBuild]_vars

----------------------------------------------------------------------------
(* Model Assembler inputs: up to MaxEdgeRows edges along the vertex ring   *)
(* with one area-type column; every non-empty area-demand table of that    *)
(* type; a time table with the columns weight and scale, weight and one    *)
(* column per commodity, or all of them, with factors in 0..MaxScale.      *)

ModelRows(n) ==
    {[k \in 1..n |-> EdgeRow(k, k, (k % NumVertex) + 1, 1, [ty \in {"res"} |-> area[k]])] :
        area \in [1..n -> 0..MaxArea]}

ModelAreaDemand ==
    {AreaDemandOf([d \in AreaType \X Commodity |-> IF d[1] = "res" THEN choice[d[2]] ELSE 0]) :
        choice \in [Commodity -> 0..MaxIntensity] \ {[co \in Commodity |-> 0]}}

TimeTables ==
    {[cols |-> cols \cup {"weight"},
      rows |-> [t \in Time |-> [c \in cols \cup {"weight"} |->
                                   IF c = "weight" THEN 1 ELSE f[c]]]] :
        cols \in {{"scale"}, Commodity, Commodity \cup {"scale"}},
        f \in [Commodity \cup {"scale"} -> 0..MaxScale]}

Init ==
    \E n \in 1..MaxEdgeRows : \E rows \in ModelRows(n) :
    \E ad \in ModelAreaDemand : \E tm \in TimeTables :
        InitOf(DefaultCommodity, DefaultProcess, DefaultProcessCommodity, tm,
               ad, VertexTable(Endpoints(rows), MaxVal), EdgeTable({"res"}, rows))

Spec == Init /\ [][NextBuild]_vars

----------------------------------------------------------------------------
(* Solver inputs: two vertices joined by one edge row in either            *)
(* orientation, or by two rows that list the pair once in each             *)
(* orientation.  Heat is demanded and transportable, with non-negative     *)
(* loss coefficients.  One technology turns Gas into Heat: the hub         *)
(* 'boiler' or the vertex process 'plant'.  The vertex table has one       *)
(* source column, Gas or Heat, with a capacity at vertex 1.  Gas is not    *)
(* transportable, except in the inputs where the hub draws Gas from the    *)
(* edge.                                                                   *)

SolveRows ==
    {<<EdgeRow(1, 1, 2, 1, [ty \in {"res"} |-> 1])>>,
     <<EdgeRow(1, 2, 1, 1, [ty \in {"res"} |-> 1])>>,
     <<EdgeRow(1, 1, 2, 1, [ty \in {"res"} |-> 0]),
       EdgeRow(2, 2, 1, 1, [ty \in {"res"} |-> 1])>>}

\* <<loss-fix, loss-var>> of Heat
SolveLosses == {<<0, 0>>, <<1, 0>>, <<0, 1>>}

SolveCommodity(loss, gas_cap_max) ==
    [co \in Commodity |->
        IF co = "Heat"
        THEN [DefaultCommodity[co] EXCEPT !.loss_fix = loss[1], !.loss_var = loss[2],
                                          !.cost_fix = 1]
        ELSE [DefaultCommodity[co] EXCEPT !.cap_max = gas_cap_max]]

\* the process table and the process-commodity table of one technology
SolveProcess(p) == [q \in {p} |-> [DefaultProcess[p] EXCEPT !.cap_max = 1, !.cost_fix = 2]]

SolveProcessCommodity(p) ==
    [k \in {<<p, "Gas", "In">>, <<p, "Heat", "Out">>} |-> RatioDen]

SolveTime ==
    {[cols |-> {"weight"} \cup Commodity,
      rows |-> [t \in Time |-> [c \in {"weight"} \cup Commodity |->
                                   IF c = "Heat" THEN f ELSE 1]]] :
        f \in 1..MaxScale}

SolveVertexOf(co, cap) ==
    [indexed |-> FALSE, cols |-> {co},
     rows |-> [id \in {1, 2} |-> [c \in {co} |-> IF id = 1 THEN cap ELSE 0]]]

SolveVertex == {SolveVertexOf(co, cap) : co \in Commodity, cap \in 1..MaxVal}

\* Heat cannot be transported: a boiler on the edge has to make it from Gas
LocalHeatCommodity ==
    [SolveCommodity(<<0, 0>>, 1) EXCEPT !["Heat"].cap_max = 0]

InitSolve ==
    \/ \E rows \in SolveRows : \E loss \in SolveLosses : \E p \in Process :
       \E tm \in SolveTime : \E v \in SolveVertex :
           InitOf(SolveCommodity(loss, 0), SolveProcess(p), SolveProcessCommodity(p),
                  tm, DefaultAreaDemand, v, EdgeTable({"res"}, rows))
    \/ \E tm \in SolveTime :
           InitOf(SolveCommodity(<<0, 0>>, 1), SolveProcess("boiler"),
                  SolveProcessCommodity("boiler"), tm, DefaultAreaDemand,
                  SolveVertexOf("Gas", MaxVal), DefaultEdge)
    \/ \E tm \in SolveTime :
           InitOf(LocalHeatCommodity, SolveProcess("boiler"),
                  SolveProcessCommodity("boiler"), tm, DefaultAreaDemand,
                  SolveVertexOf("Gas", MaxVal), DefaultEdge)

NextSolve ==
    \/ NextBuild
    \/ Solve

SpecSolve == InitSolve /\ [][NextSolve]_vars

----------------------------------------------------------------------------
(* Commodity table inputs: every commodity has a cap-max of 0 or MaxVal    *)
(* and an allowed-max that is a number in 0..MaxVal, infinite or missing.  *)

AllowedMaxCells == {Num(n) : n \in 0..MaxVal} \cup {Inf, NaN}

CommodityTables ==
    {[co \in Commodity |->
        [DefaultCommodity[co] EXCEPT !.cap_max = cm[co], !.allowed_max = am[co]]] :
        cm \in [Commodity -> {0, MaxVal}], am \in [Commodity -> AllowedMaxCells]}

InitCommodity ==
    \E c \in CommodityTables :
        InitOf(c, DefaultProcess, DefaultProcessCommodity, DefaultTime,
               DefaultAreaDemand, VertexTable({1, 2}, MaxVal), DefaultEdge)

SpecCommodity == InitCommodity /\ [][NextBuild]_vars

----------------------------------------------------------------------------
(* Claims *)

\* the graph has been derived: lines 177-184 have run
GraphDerived ==
    \/ pc \in {"sets", "model", "done", "solved"}
    \/ pc = "failed" /\ err \notin {"xs", "unstack"}

\* the hubs have been classified: lines 127-145 have run
HubsClassified == pc # "start" /\ err # "xs"

\* the edge table holds row (u, v)
HasEdgeRow(u, v) ==
    \E k \in DOMAIN edge.rows : edge.rows[k].Vertex1 = u /\ edge.rows[k].Vertex2 = v

\* C1: for every edge table, the arc set holds both orientations of every
\* edge (u, v) of the table, and no pair that is not an orientation of an edge.
C1_ArcsAreBothOrientations ==
    GraphDerived =>
        /\ \A k \in DOMAIN edge.rows :
              /\ <<edge.rows[k].Vertex1, edge.rows[k].Vertex2>> \in m_arc
              /\ <<edge.rows[k].Vertex2, edge.rows[k].Vertex1>> \in m_arc
        /\ \A a \in m_arc : HasEdgeRow(a[1], a[2]) \/ HasEdgeRow(a[2], a[1])

\* two distinct proper edges have been turned into four arcs
C1_Witness ==
    /\ GraphDerived
    /\ Len(edge.rows) = 2
    /\ \A k \in DOMAIN edge.rows : edge.rows[k].Vertex1 # edge.rows[k].Vertex2
    /\ Cardinality(m_arc) = 4

\* v is listed in neighbours[u]
Listed(u, v) == u \in DOMAIN neighbours /\ v \in Range(neighbours[u])

\* C2: v is listed in neighbours[u] iff {u, v} is an edge of the table, and
\* v is in neighbours[u] iff u is in neighbours[v].
C2_NeighboursConsistent ==
    GraphDerived =>
        \A u, v \in Vertex :
            /\ Listed(u, v) <=> (HasEdgeRow(u, v) \/ HasEdgeRow(v, u))
            /\ Listed(u, v) <=> Listed(v, u)

\* a path u - v - w: v lists both, u and w do not list each other
C2_Witness ==
    /\ GraphDerived
    /\ \E u, v, w \in Vertex :
          /\ u # v /\ v # w /\ u # w
          /\ Listed(v, u) /\ Listed(v, w) /\ Listed(u, v) /\ Listed(w, v)
          /\ ~Listed(u, w)

\* the 'In' tuples of process p in the process-commodity table
InTuples(p) == {d \in DOMAIN data.process_commodity : d[1] = p /\ d[3] = "In"}

\* C3: a process is in the hub set iff its cost-inv-fix is 0, its cap-min
\* is 0, it has exactly one 'In' tuple and that tuple's ratio is 1.
C3_HubIffFourConditions ==
    HubsClassified =>
        \A p \in DOMAIN data.process :
            p \in hub <=>
                /\ data.process[p].cost_inv_fix = 0
                /\ data.process[p].cap_min = 0
                /\ Cardinality(InTuples(p)) = 1
                /\ \A d \in InTuples(p) : data.process_commodity[d] = RatioDen

\* one process is a hub; another, with zero fixed cost and zero minimum
\* capacity, is kept out by a single input of ratio below 1
C3_Witness ==
    /\ HubsClassified
    /\ \E p, q \in DOMAIN data.process :
          /\ p \in hub
          /\ q \notin hub
          /\ data.process[q].cost_inv_fix = 0
          /\ data.process[q].cap_min = 0
          /\ Cardinality(InTuples(q)) = 1
          /\ \E d \in InTuples(q) : data.process_commodity[d] < RatioDen

\* the peak table has been derived: lines 147-168 have run
PeakDerived ==
    \/ pc \in {"graph", "sets", "model", "done", "solved"}
    \/ pc = "failed" /\ err \notin {"xs", "unstack"}

\* the area types that are a column of the edge table and an area type of
\* the area-demand table, with an intensity for the commodity
IntersectingTypes(co) ==
    {ty \in AreaType : ty \in edge.cols /\ <<ty, co>> \in DOMAIN data.area_demand}

\* the weighted sum computed by hand from row k of the edge table
ManualPeak(k, co) ==
    SumOver([ty \in IntersectingTypes(co) |->
                edge.rows[k].area[ty] * data.area_demand[<<ty, co>>]],
            IntersectingTypes(co))

\* C4: for every edge and commodity the peak equals the sum, over the area
\* types of both tables, of edge area times peak intensity.
C4_PeakIsWeightedSum ==
    PeakDerived =>
        \A k \in DOMAIN edge.rows : \A co \in peak.columns :
            peak_at(edge.rows[k].Vertex1, edge.rows[k].Vertex2, co) = ManualPeak(k, co)

\* C5: the peak row computed from the areas of a row of the edge table is
\* stored under that row's (Vertex1, Vertex2) pair, for every order of the
\* rows and every order of the index labels.
C5_PeakRowsAligned ==
    PeakDerived =>
        \A k \in DOMAIN edge.rows :
            \E n \in peak_loc(peak, edge.rows[k].Vertex1, edge.rows[k].Vertex2) :
                peak.rows[n].val = [co \in peak.columns |-> ManualPeak(k, co)]

\* the constraints have been declared, or their declaration has raised
DeclarationTried == pc \in {"done", "solved"} \/ (pc = "failed" /\ err \notin {"xs", "unstack"})

\* C6: for every edge and demanded commodity the peak looked up by the
\* peak-satisfaction constraint is defined, it is 0 when no area-type column
\* of the edge table has an intensity for the commodity, and building the
\* model does not fail with a lookup error.
C6_PeakDefinedForDemand ==
    DeclarationTried =>
        /\ err # "peak_satisfaction"
        /\ \A k \in DOMAIN edge.rows : \A co \in co_demand_of(data.area_demand) :
              /\ co \in peak.columns
              /\ IntersectingTypes(co) = {} =>
                    peak_at(edge.rows[k].Vertex1, edge.rows[k].Vertex2, co) = 0

\* the demanded commodities, read off the area-demand table
Demanded == {co \in Commodity : \E ty \in AreaType : <<ty, co>> \in DOMAIN data.area_demand}

\* the index of the peak-satisfaction family, read off the input tables
PeakSatisfactionDomain ==
    {<<edge.rows[k].Vertex1, edge.rows[k].Vertex2, co, t>> :
        k \in DOMAIN edge.rows, co \in Demanded, t \in Time}

Solved == pc = "solved"

\* the output of commodity co by the hubs of edge (i, j) at time t, in
\* units of 1/RatioDen
HubOutput(i, j, co, t) ==
    SumOver([h \in hub |->
                IF <<h, co>> \in DOMAIN r_out
                THEN sol.Epsilon_hub[<<i, j, h, t>>] * r_out[<<h, co>>] ELSE 0], hub)

\* the transport capacity of edge (i, j) plus its hub output covers the
\* scaled peak of co at time t
CapacityCoversPeak(i, j, co, t) ==
    RatioDen * sol.Pmax[<<i, j, co>>] + HubOutput(i, j, co, t)
        >= RatioDen * peak_at(i, j, co) * data.time.rows[t][co]

\* no unordered vertex pair is listed by two rows of the edge table
NoRepeatedPair ==
    \A k, l \in DOMAIN edge.rows :
        k # l => {edge.rows[k].Vertex1, edge.rows[k].Vertex2}
                     # {edge.rows[l].Vertex1, edge.rows[l].Vertex2}

\* C8: in every satisfying assignment, for every edge, demanded
\* transportable commodity and time step, Pmax plus the hub output of the
\* commodity at the edge is at least peak * scale; with one edge, no hub and
\* scale 1, Pmax of the edge is at least its peak (the scenario's 500, the
\* unit of the quantities here).
C8_CapacityCoversPeak ==
    Solved =>
        \A e \in m_edge : \A co \in sets.co_demand \cap sets.co_transportable :
        \A t \in m_time :
            /\ CapacityCoversPeak(e[1], e[2], co, t)
            /\ (Len(edge.rows) = 1 /\ hub = {} /\ data.time.rows[t][co] = 1)
                   => sol.Pmax[<<e[1], e[2], co>>] >= peak_at(e[1], e[2], co)

\* The inequality of C8 on the edge tables that list no vertex pair twice.
CapacityCoversPeakOnSimpleGraphs ==
    (Solved /\ NoRepeatedPair) =>
        \A e \in m_edge : \A co \in sets.co_demand \cap sets.co_transportable :
        \A t \in m_time :
            /\ CapacityCoversPeak(e[1], e[2], co, t)
            /\ (hub = {} /\ data.time.rows[t][co] = 1)
                   => sol.Pmax[<<e[1], e[2], co>>] >= peak_at(e[1], e[2], co)

\* on a table without a repeated pair, a peak is covered with no slack, once
\* by transport alone and once with hub output
SimpleGraphCoveredTight ==
    /\ Solved /\ NoRepeatedPair
    /\ \E e \in m_edge : \E t \in m_time :
          /\ peak_at(e[1], e[2], "Heat") > 0
          /\ RatioDen * sol.Pmax[<<e[1], e[2], "Heat">>] + HubOutput(e[1], e[2], "Heat", t)
                 = RatioDen * peak_at(e[1], e[2], "Heat") * data.time.rows[t]["Heat"]

SimpleGraphHubOutput ==
    /\ Solved /\ NoRepeatedPair
    /\ \E e \in m_edge : \E t \in m_time : HubOutput(e[1], e[2], "Heat", t) > 0

\* C9: in every satisfying assignment, for every edge, transportable
\* commodity and time step, the used-indicators Psi of the two opposite
\* arcs are never both 1 and the inflows Pin of the two arcs are never both
\* positive.
C9_OppositeArcsExclusive ==
    Solved =>
        \A e \in m_edge : \A co \in sets.co_transportable : \A t \in m_time :
            /\ ~ (/\ sol.Psi[<<e[1], e[2], co, t>>] = 1
                  /\ sol.Psi[<<e[2], e[1], co, t>>] = 1)
            /\ ~ (/\ sol.Pin[<<e[1], e[2], co, t>>] > 0
                  /\ sol.Pin[<<e[2], e[1], co, t>>] > 0)

\* an edge carries a positive inflow on one arc, which is marked used, and
\* its opposite arc is unused and carries none
C9_Witness ==
    /\ Solved
    /\ \E a \in m_arc : \E co \in sets.co_transportable : \E t \in m_time :
          /\ a[1] # a[2]
          /\ sol.Psi[<<a[1], a[2], co, t>>] = 1
          /\ sol.Pin[<<a[1], a[2], co, t>>] > 0
          /\ sol.Psi[<<a[2], a[1], co, t>>] = 0
          /\ sol.Pin[<<a[2], a[1], co, t>>] = 0

\* the net withdrawal -(flow_balance + process_balance) of co at v at time
\* t, in units of 1/RatioDen; the flow balance counts for a transportable
\* commodity only
NetWithdrawal(v, co, t) ==
    - (IF co \in sets.co_transportable
       THEN RatioDen * flow_balance(sol, v, co, t) ELSE 0)
    - process_balance(sol, v, co, t)

\* C10: in every satisfying assignment, for every vertex, commodity and
\* time step, the net withdrawal is at most the source capacity the vertex
\* table declares for the commodity when the commodity is source-capable,
\* and at most 0 otherwise.
C10_WithdrawalWithinSource ==
    Solved =>
        \A v \in m_vertex : \A co \in m_commodity : \A t \in m_time :
            IF co \in DOMAIN data.commodity \cap data.vertex.cols
            THEN NetWithdrawal(v, co, t) <= RatioDen * data.vertex.rows[v][co]
            ELSE NetWithdrawal(v, co, t) <= 0

\* a vertex withdraws a source-capable commodity up to its declared
\* capacity, and another commodity is fed into a vertex by a process
C10_Witness ==
    /\ Solved
    /\ \E v \in m_vertex : \E co \in sets.co_source : \E t \in m_time :
          /\ data.vertex.rows[v][co] > 0
          /\ NetWithdrawal(v, co, t) = RatioDen * data.vertex.rows[v][co]
    /\ \E v \in m_vertex : \E co \in m_commodity \ sets.co_source : \E t \in m_time :
          NetWithdrawal(v, co, t) < 0

\* the edge table holds a self-loop, or lists an unordered vertex pair twice
LoopOrRepeatedPair ==
    \/ \E k \in DOMAIN edge.rows : edge.rows[k].Vertex1 = edge.rows[k].Vertex2
    \/ ~ NoRepeatedPair

\* C11: create_model rejects an edge table that holds a self-loop or the
\* same unordered vertex pair more than once; it never returns a model built
\* from such a table.
C11_LoopsAndRepeatsRejected ==
    LoopOrRepeatedPair => pc \notin {"done", "solved"}

\* the commodity subsets have been derived: lines 186-208 have run
SetsDerived ==
    \/ pc \in {"model", "done", "solved"}
    \/ pc = "failed" /\ err \notin {"xs", "unstack"}

\* C12: the commodities that receive a generation cap are exactly those
\* whose allowed-max is greater than 0 and finite; a commodity whose
\* allowed-max is infinite, zero or missing gets no commodity_maximum
\* constraint.
C12_AllowedMaxPositiveFinite ==
    /\ SetsDerived =>
          sets.co_allowed_max =
              {co \in DOMAIN data.commodity :
                  /\ data.commodity[co].allowed_max.kind = "num"
                  /\ data.commodity[co].allowed_max.val > 0}
    /\ pc \in {"done", "solved"} =>
          \A co \in DOMAIN data.commodity :
              data.commodity[co].allowed_max.kind \in {"inf", "nan"}
                  => co \notin cons.commodity_maximum

\* the vertex-located families of the built model: the variables and the
\* constraints indexed by a vertex and a process
VertexScopeIndexes ==
    cons.Kappa_process \cup cons.Phi \cup cons.Tau \cup cons.Epsilon_in
        \cup cons.Epsilon_out \cup cons.process_throughput_by_capacity
        \cup cons.process_capacity_min \cup cons.process_capacity_max
        \cup cons.process_input \cup cons.process_output

\* C13: the classification is a partition of the process table into hubs,
\* located only in edges, and generic processes, located only at vertices:
\* a hub has no vertex-located capacity, indicator, throughput or flow
\* variable and no vertex-scope constraint, and a generic process has no
\* edge-located variable.
C13_HubsOnlyInEdges ==
    pc \in {"done", "solved"} =>
        /\ hub \subseteq m_process
        /\ \A k \in cons.Kappa_hub \cup cons.Epsilon_hub : k[3] \in hub
        /\ \A k \in VertexScopeIndexes : k[2] \notin hub

----------------------------------------------------------------------------
(* The inequality rules of the three model builders                        *)
(*                                                                         *)
(* The repository holds three builders of the programme: create_model of   *)
(* src/rivus/main/rivus.py and the two earlier scripts src/rivus.py and    *)
(* src/capmin.py.  Each states its peak and capacity constraints as a      *)
(* comparison of two evaluated sides; the operators below are these        *)
(* comparisons, rule by rule, with lhs and rhs the values of the two sides *)
(* as the source writes them.                                              *)

CapacityRules ==
    {"arc_flow_by_capacity", "edge_capacity", "hub_output_by_capacity",
     "hub_capacity", "source_vertices", "process_throughput_by_capacity",
     "process_capacity_min", "process_capacity_max"}

main_rules == {"peak_satisfaction", "commodity_maximum"} \cup CapacityRules

main_rule_holds(rule, lhs, rhs) ==
    CASE rule = "peak_satisfaction"    -> lhs >= rhs
      [] rule = "process_capacity_min" -> lhs >= rhs
      [] OTHER                         -> lhs <= rhs

legacy_rules == {"peak_satisfaction"} \cup CapacityRules

legacy_rule_holds(rule, lhs, rhs) ==
    CASE rule = "peak_satisfaction"    -> lhs >= rhs
      [] rule = "process_capacity_min" -> lhs >= rhs
      [] OTHER                         -> lhs <= rhs

capmin_rules == {"peak_satisfaction"} \cup CapacityRules

capmin_rule_holds(rule, lhs, rhs) ==
    CASE rule = "peak_satisfaction"    -> lhs > rhs
      [] rule = "process_capacity_min" -> lhs >= rhs
      [] OTHER                         -> lhs <= rhs

Builders == {"rivus/main/rivus.py", "rivus.py", "capmin.py"}

rules_of(builder) ==
    CASE builder = "rivus/main/rivus.py" -> main_rules
      [] builder = "rivus.py"            -> legacy_rules
      [] builder = "capmin.py"           -> capmin_rules

(* pyomo evaluates one rule of one builder on the values of its two sides. *)
EvaluateRule ==
    /\ pc = "call"
    /\ call.op = "rule"
    /\ call' = [call EXCEPT !.holds =
                   CASE call.builder = "rivus/main/rivus.py" ->
                            main_rule_holds(call.rule, call.lhs, call.rhs)
                     [] call.builder = "rivus.py" ->
                            legacy_rule_holds(call.rule, call.lhs, call.rhs)
                     [] call.builder = "capmin.py" ->
                            capmin_rule_holds(call.rule, call.lhs, call.rhs)]
    /\ pc' = "returned"
    /\ UNCHANGED <<err, data, vertex, edge, r_in, r_out, hub, peak, arcs, neighbours,
                   sets, cons, sol>>

(* Every variable of create_model at its value before the call.            *)
Idle ==
    /\ err = ""
    /\ data = << >>
    /\ vertex = << >>
    /\ edge = << >>
    /\ r_in = << >>
    /\ r_out = << >>
    /\ hub = {}
    /\ peak = << >>
    /\ arcs = << >>
    /\ neighbours = << >>
    /\ sets = << >>
    /\ cons = << >>
    /\ sol = << >>

InitRules ==
    /\ pc = "call"
    /\ Idle
    /\ \E builder \in Builders : \E rule \in rules_of(builder) :
       \E lhs \in 0..MaxVal, rhs \in 0..MaxVal :
           call = [op |-> "rule", builder |-> builder, rule |-> rule,
                   lhs |-> lhs, rhs |-> rhs, holds |-> FALSE]

SpecRules == InitRules /\ [][EvaluateRule]_vars

----------------------------------------------------------------------------
(* C14 *)

RuleEvaluated == pc = "returned" /\ call.op = "rule"

(* C14: every capacity and peak constraint of every builder is a weak      *)
(* inequality: an assignment whose two sides are equal satisfies it.       *)
C14_InequalitiesAreWeak ==
    (RuleEvaluated /\ call.lhs = call.rhs) => call.holds

----------------------------------------------------------------------------
(* Repeated builds: run_bunch (src/runbunch.py, lines 170-178) calls       *)
(* create_model once per variant, each time on deep copies of the vertex   *)
(* and edge tables and on a shallow copy of the data dict.  call keeps the *)
(* caller's own objects, the number of the build under way and what the    *)
(* first build produced.                                                   *)

\* what the previous build left in place of the caller's table
shared_table(own, previous) == previous

\* __vdf = deepcopy(_vdf), __edf = deepcopy(edf): a new table equal to the
\* caller's own, whatever the previous build did to its copy
deepcopy(own, previous) == own

\* __data = data.copy(): the keys of the caller's dict; the tables under
\* them are the same objects the previous build worked on
dict_copy(own, previous) == [k \in DOMAIN own |-> previous[k]]

\* the sets and index domains of the model that create_model returned
built_model ==
    [sets |-> sets, hub |-> hub, arc |-> m_arc, edge |-> m_edge, domains |-> cons]

Rebuild ==
    /\ pc = "done"
    /\ call.op = "run_bunch"
    /\ call.build = 1
    /\ call' = [call EXCEPT !.build = 2, !.first = built_model]
    /\ vertex' = deepcopy(call.vertex, vertex)
    /\ edge' = deepcopy(call.edge, edge)
    /\ data' = dict_copy(call.data, data)
    /\ pc' = "start"
    /\ r_in' = << >>
    /\ r_out' = << >>
    /\ hub' = {}
    /\ peak' = [columns |-> {}, rows |-> << >>]
    /\ arcs' = << >>
    /\ neighbours' = << >>
    /\ sets' = [co_demand |-> {}, co_transportable |-> {}, co_source |-> {},
                co_allowed_max |-> {}]
    /\ cons' = << >>
    /\ UNCHANGED <<err, sol>>

\* a vertex table with the given ids and source columns
BunchVertex(ids, cols) ==
    [indexed |-> FALSE, cols |-> cols, rows |-> [id \in ids |-> [co \in cols |-> MaxVal]]]

(* Inputs: the edge tables and technologies of the assembler and the       *)
(* classifier, and a vertex table with any set of commodity columns.       *)
InitBunch ==
    \E n \in 1..MaxEdgeRows : \E rows \in ModelRows(n) : \E p \in TechProcess :
    \E cols \in SUBSET Commodity :
        /\ pc = "start"
        /\ err = ""
        /\ data = [commodity |-> DefaultCommodity, process |-> p,
                   process_commodity |-> DefaultProcessCommodity,
                   time |-> DefaultTime, area_demand |-> DefaultAreaDemand]
        /\ vertex = BunchVertex(Endpoints(rows), cols)
        /\ edge = EdgeTable({"res"}, rows)
        /\ r_in = << >>
        /\ r_out = << >>
        /\ hub = {}
        /\ peak = [columns |-> {}, rows |-> << >>]
        /\ arcs = << >>
        /\ neighbours = << >>
        /\ sets = [co_demand |-> {}, co_transportable |-> {}, co_source |-> {},
                   co_allowed_max |-> {}]
        /\ cons = << >>
        /\ sol = << >>
        /\ call = [op |-> "run_bunch", build |-> 1, first |-> << >>,
                   data |-> data, vertex |-> vertex, edge |-> edge]

NextBunch == NextBuild \/ Rebuild

SpecBunch == InitBunch /\ [][NextBunch]_vars

----------------------------------------------------------------------------
(* C15 *)

SecondBuildEnded == call.op = "run_bunch" /\ call.build = 2 /\ pc \in {"done", "failed"}

(* C15: a second build from fresh copies of the same inputs completes and  *)
(* yields the sets and the index domains of every variable and constraint  *)
(* family that the first build yielded.                                    *)
C15_RebuildYieldsSameModel ==
    SecondBuildEnded => pc = "done" /\ built_model = call.first

(* a second build has completed on a vertex table that lacked a commodity  *)
(* column, the one the first build added to its own copy                   *)
C15_Witness ==
    /\ SecondBuildEnded
    /\ pc = "done"
    /\ call.vertex.cols # Commodity
    /\ sets.co_source # Commodity

----------------------------------------------------------------------------
(* C16 *)

InputTables == {"commodity", "process", "process_commodity", "time", "area_demand"}

Returned == call.op = "run_bunch" /\ pc = "done"

(* C16: when create_model returns, the caller's vertex table is indexed by *)
(* 'Vertex' and has gained a zero column for exactly the commodities that  *)
(* were not columns, the edge table is indexed by (Vertex1, Vertex2), the  *)
(* data dict has gained the keys 'hub', 'vertex' and 'edge', and the five  *)
(* input tables are as they were.                                          *)
C16_ArgumentsMutatedInPlace ==
    Returned =>
        /\ vertex.indexed
        /\ vertex.cols = call.vertex.cols \cup DOMAIN data.commodity
        /\ DOMAIN vertex.rows = DOMAIN call.vertex.rows
        /\ \A id \in DOMAIN vertex.rows : \A co \in vertex.cols :
               vertex.rows[id][co] =
                   IF co \in call.vertex.cols THEN call.vertex.rows[id][co] ELSE 0
        /\ edge.indexed
        /\ edge.rows = call.edge.rows
        /\ DOMAIN data = DOMAIN call.data \cup {"hub", "vertex", "edge"}
        /\ {"hub", "vertex", "edge"} \cap DOMAIN call.data = {}
        /\ \A k \in InputTables : data[k] = call.data[k]

(* create_model has returned after adding a zero column to the vertex      *)
(* table                                                                   *)
C16_Witness ==
    /\ Returned
    /\ call.vertex.cols # vertex.cols
    /\ ~ call.vertex.indexed

----------------------------------------------------------------------------
(* Parameter variants: run_bunch (src/runbunch.py, lines 163-184) builds   *)
(* and solves the model once per variant of one parameter, other           *)
(* parameters fixed.  call keeps the parameter that is varied, the         *)
(* caller's own tables, and the cost values of the first solution.         *)

\* a unit cost is in 0..MaxCost
MaxCost == 2

\* a copy of the table with the parameter set to zero
variant_zeroed(table, index, column, value) ==
    [table EXCEPT ![index] = [@ EXCEPT ![column] = 0]]

\* df.loc[index, column] = value on a copy of the table
variant(table, index, column, value) ==
    [table EXCEPT ![index] = [@ EXCEPT ![column] = value]]

\* the parameters that are varied: <<df_name, index, column>>
CostParameters ==
    {<<"commodity", "Heat", "cost_var">>, <<"commodity", "Heat", "cost_inv_var">>,
     <<"process", "plant", "cost_inv_var">>, <<"process", "plant", "cost_fix">>,
     <<"process", "plant", "cost_var">>}

\* the cost type a unit cost enters
cost_type_of(column) ==
    CASE column \in {"cost_inv_var", "cost_inv_fix"} -> "Inv"
      [] column = "cost_fix" -> "Fix"
      [] column = "cost_var" -> "Var"

NextVariant ==
    /\ pc = "solved"
    /\ call.op = "parameter_range"
    /\ call.build = 1
    /\ call' = [call EXCEPT !.build = 2, !.first = sol.costs]
    /\ vertex' = deepcopy(call.vertex, vertex)
    /\ edge' = deepcopy(call.edge, edge)
    /\ data' = [dict_copy(call.data, data) EXCEPT
                   ![call.df_name] = variant(call.data[call.df_name], call.index,
                                             call.column, call.value)]
    /\ pc' = "start"
    /\ r_in' = << >>
    /\ r_out' = << >>
    /\ hub' = {}
    /\ peak' = [columns |-> {}, rows |-> << >>]
    /\ arcs' = << >>
    /\ neighbours' = << >>
    /\ sets' = [co_demand |-> {}, co_transportable |-> {}, co_source |-> {},
                co_allowed_max |-> {}]
    /\ cons' = << >>
    /\ sol' = << >>
    /\ err' = err

(* Inputs: vertices 1 and 2 joined by one edge with a Heat peak of 1.      *)
(* Heat is transportable, Gas is not.  Vertex 1 can supply a unit of Heat  *)
(* and a unit of Gas; the process 'plant' turns Gas into Heat.  The unit   *)
(* costs of the Heat source and of the plant are in 0..MaxCost, and the    *)
(* variant raises one of them to MaxCost or to MaxCost + 1.                *)
CostCommodity(heat_var) ==
    [co \in Commodity |->
        IF co = "Heat"
        THEN [DefaultCommodity[co] EXCEPT !.cost_var = heat_var]
        ELSE [DefaultCommodity[co] EXCEPT !.cap_max = 0, !.cost_var = 0, !.cost_inv_var = 0]]

CostProcess(inv_var, fix) ==
    [q \in {"plant"} |->
        [DefaultProcess[q] EXCEPT !.cap_max = 1, !.cost_inv_var = inv_var, !.cost_fix = fix]]

CostVertex ==
    [indexed |-> FALSE, cols |-> Commodity,
     rows |-> [id \in {1, 2} |-> [co \in Commodity |-> IF id = 1 THEN 1 ELSE 0]]]

InitCost ==
    \E heat_var \in 0..MaxCost : \E inv_var \in 0..MaxCost : \E fix \in 0..MaxCost :
    \E param \in CostParameters : \E value \in {MaxCost, MaxCost + 1} :
        /\ pc = "start"
        /\ err = ""
        /\ data = [commodity |-> CostCommodity(heat_var),
                   process |-> CostProcess(inv_var, fix),
                   process_commodity |-> SolveProcessCommodity("plant"),
                   time |-> DefaultTime, area_demand |-> DefaultAreaDemand]
        /\ data[param[1]][param[2]][param[3]] < value
        /\ vertex = CostVertex
        /\ edge = DefaultEdge
        /\ r_in = << >>
        /\ r_out = << >>
        /\ hub = {}
        /\ peak = [columns |-> {}, rows |-> << >>]
        /\ arcs = << >>
        /\ neighbours = << >>
        /\ sets = [co_demand |-> {}, co_transportable |-> {}, co_source |-> {},
                   co_allowed_max |-> {}]
        /\ cons = << >>
        /\ sol = << >>
        /\ call = [op |-> "parameter_range", build |-> 1, first |-> << >>,
                   df_name |-> param[1], index |-> param[2], column |-> param[3],
                   value |-> value, data |-> data, vertex |-> vertex, edge |-> edge]

NextCost == NextBuild \/ Optimise \/ NextVariant

SpecCost == InitCost /\ [][NextCost]_vars

----------------------------------------------------------------------------
(* C17, C18, C19 *)

Optimised == call.op = "parameter_range" /\ pc = "solved"

ThreeCosts(x) == x.costs["Inv"] + x.costs["Fix"] + x.costs["Var"]

(* C17: the cost types are exactly Inv, Fix and Var, each cost variable    *)
(* equals its defining sum, and the solution returned has the least value  *)
(* of costs['Inv'] + costs['Fix'] + costs['Var'] among the feasible        *)
(* assignments.                                                            *)
C17_ObjectiveIsSumOfThreeCosts ==
    Optimised =>
        /\ cons.def_costs = {"Inv", "Fix", "Var"}
        /\ DOMAIN sol.costs = {"Inv", "Fix", "Var"}
        /\ \A ct \in DOMAIN sol.costs : def_costs_rule(sol, ct)
        /\ \A y \in feasible : ThreeCosts(sol) <= ThreeCosts(y)

(* a solution returned although another assignment has lower investment    *)
(* and variable costs: its fixed costs decide                              *)
C17_Witness ==
    /\ Optimised
    /\ \E y \in feasible :
          /\ y.costs["Inv"] + y.costs["Var"] < sol.costs["Inv"] + sol.costs["Var"]
          /\ y.costs["Fix"] > sol.costs["Fix"]

PerCapacityFixedCosts ==
    SumOver([k \in m_edge \X hub |->
                sol.Kappa_hub[<<k[1][1], k[1][2], k[2]>>] * data.process[k[2]].cost_fix],
            m_edge \X hub)
  + SumOver([k \in m_vertex \X m_process |->
                sol.Kappa_process[k] * data.process[k[2]].cost_fix],
            m_vertex \X m_process)
  + SumOver([k \in m_edge \X sets.co_transportable |->
                sol.Pmax[<<k[1][1], k[1][2], k[2]>>] * data.commodity[k[2]].cost_fix
                    * line_length(k[1][1], k[1][2])],
            m_edge \X sets.co_transportable)

(* C18: the fixed costs are the sum of Kappa_hub x hub cost-fix, of        *)
(* Kappa_process x process cost-fix and of Pmax x commodity cost-fix x     *)
(* edge length over the transportable commodities.                         *)
C18_FixIsPerCapacitySum ==
    pc = "solved" => sol.costs["Fix"] = PerCapacityFixedCosts

(* a solution with hub or process capacity and with pipe capacity, whose   *)
(* fixed costs are positive and differ from its investment costs           *)
C18_Witness ==
    /\ pc = "solved"
    /\ \/ \E k \in DOMAIN sol.Kappa_hub : sol.Kappa_hub[k] > 0
       \/ \E k \in DOMAIN sol.Kappa_process : sol.Kappa_process[k] > 0
    /\ \E k \in DOMAIN sol.Pmax : sol.Pmax[k] > 0
    /\ sol.costs["Fix"] > 0
    /\ sol.costs["Fix"] # sol.costs["Inv"]

SecondOptimised == Optimised /\ call.build = 2

(* C19: with one unit cost raised, the cost type it enters is not lower in *)
(* a cost-minimal solution than it was in a cost-minimal solution before.  *)
C19_CostTypeMonotone ==
    SecondOptimised =>
        sol.costs[cost_type_of(call.column)] >= call.first[cost_type_of(call.column)]

(* C19, amended: with one unit cost raised, the objective is not lower in  *)
(* a cost-minimal solution than it was in a cost-minimal solution before.  *)
C19_ObjectiveMonotone ==
    SecondOptimised => ThreeCosts(sol) >= ThreeCosts([costs |-> call.first])

(* the raised unit cost made the optimum dearer and moved it away from the *)
(* cost type of that unit cost                                             *)
C19_Witness ==
    /\ SecondOptimised
    /\ ThreeCosts(sol) > ThreeCosts([costs |-> call.first])
    /\ sol.costs[cost_type_of(call.column)] < call.first[cost_type_of(call.column)]

----------------------------------------------------------------------------
(* Graph exporters: to_igraph and to_nx (src/rivus/graph/to_graph.py).     *)
(* For one commodity, edf has the rows 1..n and pmax a capacity for some   *)
(* of them.  call keeps the arguments, the weight given to each edge and   *)
(* the edges of the graph that is returned.                                *)

\* rows of the edge table handed to an exporter
MaxGraphRows == 3

\* a weight: the quotient of two numbers, or what a division by zero leaves
Quotient(a, b) == [kind |-> "num", num |-> a, den |-> b]
DivisionByZero == [kind |-> "nan", num |-> 0, den |-> 0]

\* pmax = edf.join(pmax).fillna(0), when the tables differ in length
joined(n, pmax) ==
    IF n # Cardinality(DOMAIN pmax)
    THEN [k \in 1..n |-> IF k \in DOMAIN pmax THEN pmax[k] ELSE 0]
    ELSE pmax

\* pmax[comm].max(): NaN for an empty column
series_max(column) ==
    IF DOMAIN column = {} THEN NaN
    ELSE Num(CHOOSE c \in Range(column) : \A d \in Range(column) : d <= c)

\* a / cap_max of numpy numbers
true_divide(a, cap_max) ==
    IF cap_max.kind = "num" /\ cap_max.val # 0
    THEN Quotient(a, cap_max.val)
    ELSE DivisionByZero

\* the weights without the test of the maximum
weights_unguarded(column) == [k \in DOMAIN column |-> true_divide(column[k], series_max(column))]

\* to_igraph, lines 75-80
igraph_weights(column) ==
    IF series_max(column) = Num(0)
    THEN [k \in DOMAIN column |-> Quotient(0, 1)]
    ELSE [k \in DOMAIN column |-> true_divide(column[k], series_max(column))]

\* g.delete_edges(g.es.select(weight_eq=0))
delete_edges(weights) ==
    {k \in DOMAIN weights : ~ (weights[k].kind = "num" /\ weights[k].num = 0)}

\* to_nx, lines 146-157: the rows that become edges, with their weights
nx_weights(column) ==
    IF series_max(column) # Num(0)
    THEN [k \in {r \in DOMAIN column : column[r] # 0} |->
             true_divide(column[k], series_max(column))]
    ELSE << >>

to_igraph ==
    /\ pc = "call"
    /\ call.op = "to_igraph"
    /\ call' = [call EXCEPT
                   !.weights = igraph_weights(joined(call.n, call.pmax)),
                   !.edges = delete_edges(igraph_weights(joined(call.n, call.pmax)))]
    /\ pc' = "returned"
    /\ UNCHANGED <<err, data, vertex, edge, r_in, r_out, hub, peak, arcs, neighbours,
                   sets, cons, sol>>

to_nx ==
    /\ pc = "call"
    /\ call.op = "to_nx"
    /\ call' = [call EXCEPT
                   !.weights = nx_weights(joined(call.n, call.pmax)),
                   !.edges = DOMAIN nx_weights(joined(call.n, call.pmax))]
    /\ pc' = "returned"
    /\ UNCHANGED <<err, data, vertex, edge, r_in, r_out, hub, peak, arcs, neighbours,
                   sets, cons, sol>>

(* Inputs: up to MaxGraphRows edge rows, and capacities in 0..MaxVal for   *)
(* any of them.                                                            *)
InitExport ==
    /\ pc = "call"
    /\ Idle
    /\ \E op \in {"to_igraph", "to_nx"} : \E n \in 0..MaxGraphRows :
       \E built \in SUBSET (1..n) : \E pmax \in [built -> 0..MaxVal] :
           call = [op |-> op, n |-> n, pmax |-> pmax, weights |-> << >>, edges |-> {}]

NextExport == to_igraph \/ to_nx

SpecExport == InitExport /\ [][NextExport]_vars

----------------------------------------------------------------------------
(* C20 *)

Exported == pc = "returned" /\ call.op \in {"to_igraph", "to_nx"}

\* the capacity of row k as the exporter sees it
Capacity(k) == IF k \in DOMAIN call.pmax THEN call.pmax[k] ELSE 0

MaxCapacity == CHOOSE c \in {Capacity(k) : k \in 1..call.n} :
                   \A k \in 1..call.n : Capacity(k) <= c

(* C20: no weight comes from a division by zero.  With a maximum capacity  *)
(* of 0, to_igraph gives every edge the weight 0 and to_nx adds no edge;   *)
(* otherwise the weight of each edge of the graph is its capacity divided  *)
(* by the maximum, and lies in (0, 1].                                     *)
C20_NoDivisionByZero ==
    Exported =>
        /\ \A k \in DOMAIN call.weights : call.weights[k].kind = "num"
        /\ call.n > 0 /\ MaxCapacity = 0 =>
              /\ call.op = "to_igraph" =>
                    /\ DOMAIN call.weights = 1..call.n
                    /\ \A k \in 1..call.n : call.weights[k].num = 0
              /\ call.op = "to_nx" => call.edges = {}
        /\ call.n > 0 /\ MaxCapacity # 0 =>
              \A k \in call.edges :
                  /\ call.weights[k].num = Capacity(k)
                  /\ call.weights[k].den = MaxCapacity
                  /\ 0 < call.weights[k].num
                  /\ call.weights[k].num <= call.weights[k].den

(* an export of rows whose capacities are all 0, some of them filled in by *)
(* the join                                                                *)
C20_Witness ==
    /\ Exported
    /\ call.n > 1
    /\ MaxCapacity = 0
    /\ DOMAIN call.pmax # {}
    /\ DOMAIN call.pmax # 1..call.n

----------------------------------------------------------------------------
(* The variant generator: parameter_range (src/rivus/utils/runmany.py).    *)
(* The proportional arguments lim_lo, lim_up and step are numerators over  *)
(* LimDen, and so are the cells of the frame: the parameter p is the cell  *)
(* p * LimDen.  call keeps the caller's frame data_df, the generator's     *)
(* copy df, the values still to come and the cell the consumer read at     *)
(* each yield.                                                             *)

\* proportions are numerators over LimDen
LimDen == 20

\* an argument left at its default None
None == 0 - 1

\* the parameter is in -MaxParam..MaxParam
MaxParam == 2

\* the quotient a / b rounded down, for b # 0
floor_div(a, b) ==
    IF b > 0 THEN a \div b ELSE (0 - a) \div (0 - b)

\* the quotient a / b rounded up, for b # 0
ceil_div(a, b) ==
    IF b > 0 THEN 0 - ((0 - a) \div b) ELSE 0 - (a \div (0 - b))

\* numpy.arange(start, stop, step): start + i * step for i below
\* ceil((stop - start) / step)
arange(start, stop, step) ==
    LET n == ceil_div(stop - start, step)
    IN  [i \in 1..(IF n > 0 THEN n ELSE 0) |-> start + (i - 1) * step]

\* LO_PROP, UP_PROP, STEP_PROP: 0.9, 1.1 and 0.05
LO_PROP == 18
UP_PROP == 22
STEP_PROP == 1

\* df.loc[index][column], the frame being keyed by index
cell(df, index, column) == df[index][column]

\* original, after the zero_root substitution of lines 65-66
original_of(df, index, column, zero_root) ==
    IF cell(df, index, column) = 0 /\ zero_root # None
    THEN zero_root * LimDen
    ELSE cell(df, index, column)

\* lines 74-82: the values of arange(lim_lo, lim_up, step), each limit a
\* proportion times original; a step of 0 becomes None, which arange takes
\* as 1
mods_of(original, lim_lo, lim_up, step) ==
    LET lo == ((IF lim_lo = None THEN LO_PROP ELSE lim_lo) * original) \div LimDen
        up == ((IF lim_up = None THEN UP_PROP ELSE lim_up) * original) \div LimDen
        st == ((IF step = None THEN STEP_PROP ELSE step) * original) \div LimDen
    IN  arange(lo, up, IF st = 0 THEN LimDen ELSE st)

\* the caller's frame after a write to a frame that shares its cells
written_through(data_df, df) == df

\* df = data_df.copy(): a deep copy, so the caller's frame after a write to
\* df is what it was
after_write(data_df, df) == data_df

\* df.loc[index, column] = mod
set_cell(df, index, column, mod) ==
    [df EXCEPT ![index] = [@ EXCEPT ![column] = mod]]

\* first next(): lines 58-83
StartRange ==
    /\ pc = "call"
    /\ call.op = "generator"
    /\ IF cell(call.data_df, call.index, call.column) = 0 /\ call.zero_root = None
       THEN /\ call' = [call EXCEPT !.df = call.data_df, !.exhausted = TRUE]
            /\ pc' = "returned"
       ELSE /\ call' = [call EXCEPT
                           !.df = call.data_df,
                           !.mods = mods_of(original_of(call.data_df, call.index,
                                                        call.column, call.zero_root),
                                            call.lim_lo, call.lim_up, call.step)]
            /\ pc' = "yielding"
    /\ UNCHANGED <<err, data, vertex, edge, r_in, r_out, hub, peak, arcs, neighbours,
                   sets, cons, sol>>

\* one pass of the loop at lines 85-90.  On a frame with a MultiIndex the
\* write is df.loc[tuple(index)][column] = mod, an assignment to the row that
\* .loc returned: it reaches df when that row is a view of df (row_is_view),
\* and is lost when it is a copy.
YieldVariant ==
    /\ pc = "yielding"
    /\ call.mods # << >>
    /\ LET df == IF ~call.is_multi \/ call.row_is_view
                 THEN set_cell(call.df, call.index, call.column, Head(call.mods))
                 ELSE call.df
       IN  call' = [call EXCEPT
                       !.df = df,
                       !.data_df = after_write(call.data_df, df),
                       !.mods = Tail(call.mods),
                       !.yielded = Append(call.yielded, cell(df, call.index, call.column))]
    /\ pc' = "yielding"
    /\ UNCHANGED <<err, data, vertex, edge, r_in, r_out, hub, peak, arcs, neighbours,
                   sets, cons, sol>>

\* the loop ends: StopIteration
Exhaust ==
    /\ pc = "yielding"
    /\ call.mods = << >>
    /\ call' = [call EXCEPT !.exhausted = TRUE]
    /\ pc' = "returned"
    /\ UNCHANGED <<err, data, vertex, edge, r_in, r_out, hub, peak, arcs, neighbours,
                   sets, cons, sol>>

\* the consumer leaves its loop early
Abandon ==
    /\ pc = "yielding"
    /\ call.mods # << >>
    /\ pc' = "returned"
    /\ UNCHANGED <<err, data, vertex, edge, r_in, r_out, hub, peak, arcs, neighbours,
                   sets, cons, sol, call>>

(* Inputs: a frame of two rows and two columns whose targeted cell is the  *)
(* parameter p; limits and steps given as proportions or left at None.     *)
RangeFrame(p) ==
    [i \in {"Heat", "Gas"} |->
        [c \in {"cost_inv_fix", "cap_max"} |->
            IF i = "Heat" /\ c = "cost_inv_fix" THEN p * LimDen ELSE LimDen]]

InitRange ==
    /\ pc = "call"
    /\ Idle
    /\ \E p \in (0 - MaxParam)..MaxParam :
       \E lim_lo \in {None, 10} : \E lim_up \in {None, 30, 32} :
       \E step \in {None, 0, 5, 10} : \E zero_root \in {None, 1} :
       \E is_multi \in BOOLEAN : \E row_is_view \in (IF is_multi THEN BOOLEAN ELSE {FALSE}) :
           call = [op |-> "generator", data_df |-> RangeFrame(p), before |-> RangeFrame(p),
                   index |-> "Heat", column |-> "cost_inv_fix",
                   lim_lo |-> lim_lo, lim_up |-> lim_up, step |-> step,
                   zero_root |-> zero_root, is_multi |-> is_multi,
                   row_is_view |-> row_is_view,
                   df |-> << >>, mods |-> << >>, yielded |-> << >>, exhausted |-> FALSE]

NextRange == StartRange \/ YieldVariant \/ Exhaust \/ Abandon

SpecRange == InitRange /\ [][NextRange]_vars

----------------------------------------------------------------------------
(* C21, C22 *)

Generating == call.op = "generator"

(* C21: at every point of a run of parameter_range, every cell of the      *)
(* frame it was given has the value it had before the call.                *)
C21_OriginalFrameUntouched == Generating => call.data_df = call.before

(* the generator has written a value other than the original into its copy *)
(* and has ended                                                           *)
C21_Witness ==
    /\ Generating
    /\ pc = "returned"
    /\ call.df # call.before
    /\ call.yielded # << >>

\* the arguments of the call as proportions, defaults resolved
LimLo == IF call.lim_lo = None THEN LO_PROP ELSE call.lim_lo
LimUp == IF call.lim_up = None THEN UP_PROP ELSE call.lim_up
Step == IF call.step = None THEN STEP_PROP ELSE call.step
Param == cell(call.before, call.index, call.column)

RanToExhaustion == Generating /\ pc = "returned" /\ call.exhausted

\* every yielded cell v has lim_lo * p <= v < lim_up * p
YieldedWithinLimits ==
    \A k \in DOMAIN call.yielded :
        /\ LimLo * Param <= call.yielded[k] * LimDen
        /\ call.yielded[k] * LimDen < LimUp * Param

----------------------------------------------------------------------------
(* The database: store, _fill_table and df_from_table (src/rivus/io/db.py). *)
(* A frame is a function from index keys to cells, a cell being Num(n) for  *)
(* the value n / RatioDen, or NaN.  The database db is the set of inserted  *)
(* rows; every insert is committed on its own (connection.commit() after   *)
(* each execute).                                                          *)

\* the parameter frames in the order store inserts them (lines 608-611)
frames == <<"commodity", "process", "process_commodity", "area_demand", "vertex",
            "time", "edge">>

\* series_names + consts_names (lines 620-622)
result_names == <<"source", "flow", "hub", "proc_io", "proc_tau",
                  "cost", "pmax", "kappa_hub", "kappa_process">>

\* the frames _fill_table and df_from_table only warn about
not_implemented == {"flow", "hub", "proc_io", "proc_tau"}

\* the frames whose cells _fill_table passes through int()
int_frames == {"vertex", "edge", "source", "cost", "pmax", "kappa_hub",
               "kappa_process"}

\* str.lower() on a direction
lower(direction) ==
    CASE direction = "In" -> "in"
      [] direction = "Out" -> "out"
      [] OTHER -> direction

\* the key a row is stored under: the direction of a process_commodity row
\* is key[2].lower() (line 426)
sql_key(frame, key) ==
    IF frame = "process_commodity" THEN [key EXCEPT ![3] = lower(@)] ELSE key

\* int(val): the fraction is cut off
int(c) == Num((c.val \div RatioDen) * RatioDen)

\* the value a row is stored with; source is filled with 0 first (line 447)
sql_value(frame, c) ==
    IF frame \in int_frames
    THEN int(IF frame = "source" /\ c = NaN THEN Num(0) ELSE c)
    ELSE c

\* int(val) raises ValueError on NaN and OverflowError on inf
int_raises(frame, df) ==
    /\ frame \in int_frames \ {"source"}
    /\ \E k \in DOMAIN df : df[k].kind # "num"

\* the rows _fill_table inserts for a frame
rows_of(frame, df, run_id) ==
    IF frame \in not_implemented
    THEN {}
    ELSE {[table |-> frame, run_id |-> run_id, key |-> sql_key(frame, k),
           value |-> sql_value(frame, df[k])] : k \in DOMAIN df}

\* purge_run (lines 160-185): delete the rows of the run
purge_run(rows, run_id) == {r \in rows : r.run_id # run_id}

\* the except clause of store (lines 631-635): purge_run is commented out
rolled_back(rows, run_id) == rows

\* one pass of a loop of store (lines 612-627): the next frame goes to
\* _fill_table, a result frame only if it is not empty.  An exception, from
\* int() or from the database, ends store through its except clause.
fill_table ==
    /\ pc = "call"
    /\ call.op = "store"
    /\ call.todo # << >>
    /\ LET frame == Head(call.todo)
           df == call.prob[frame]
       IN  \E db_error \in BOOLEAN :
           IF int_raises(frame, df) \/ (db_error /\ DOMAIN df # {})
           THEN /\ call' = [call EXCEPT !.db = rolled_back(call.db, call.run_id)]
                /\ pc' = "failed"
                /\ err' = "store"
           ELSE /\ call' = [call EXCEPT
                               !.db = call.db \cup rows_of(frame, df, call.run_id),
                               !.todo = Tail(call.todo)]
                /\ pc' = IF Tail(call.todo) = << >> THEN "returned" ELSE "call"
                /\ err' = err
    /\ UNCHANGED <<data, vertex, edge, r_in, r_out, hub, peak, arcs, neighbours,
                   sets, cons, sol>>

\* df_from_table(engine, fname, run_id): the rows of the frame's tables,
\* keyed as they were stored
df_from_table ==
    /\ pc = "returned"
    /\ call.op = "store"
    /\ \E fname \in DOMAIN call.prob :
       /\ LET rows == IF fname \in not_implemented
                      THEN {}
                      ELSE {r \in call.db : r.table = fname /\ r.run_id = call.run_id}
              df == [k \in {r.key : r \in rows} |->
                        (CHOOSE r \in rows : r.key = k).value]
          IN  call' = [call EXCEPT !.retrieved = fname :> df]
    /\ UNCHANGED <<pc, err, data, vertex, edge, r_in, r_out, hub, peak, arcs, neighbours,
                   sets, cons, sol>>

(* Inputs: a model whose frames have one row and one cell each; one frame, *)
(* the probe, has any cell, or is empty.                                   *)
DbCells == {Num(n) : n \in 0..(MaxVal + 1)} \cup {NaN}

DbKey(frame) ==
    IF frame = "process_commodity" THEN <<"plant", "Gas", "In">> ELSE <<frame, "1", "-">>

DbFrame(frame, c) == DbKey(frame) :> c

InitStore ==
    /\ pc = "call"
    /\ Idle
    /\ \E probe \in Range(frames) \cup Range(result_names) : \E c \in DbCells :
       \E empty \in BOOLEAN :
           call = [op |-> "store", run_id |-> 1,
                   prob |-> [f \in Range(frames) \cup Range(result_names) |->
                               IF f # probe THEN DbFrame(f, Num(RatioDen))
                               ELSE IF empty THEN << >> ELSE DbFrame(f, c)],
                   todo |-> frames \o result_names,
                   db |-> {},
                   retrieved |-> << >>]

NextStore == fill_table \/ df_from_table

SpecStore == InitStore /\ [][NextStore]_vars

----------------------------------------------------------------------------
(* C23, C26 *)

\* this_df.fillna(0)
fillna0(c) == IF c = NaN THEN Num(0) ELSE c

\* this_df.fillna(0) == re_df.reindex(this_df.index).fillna(0), on every key
SameOnIndex(this_df, re_df) ==
    \A k \in DOMAIN this_df :
        fillna0(this_df[k]) = (IF k \in DOMAIN re_df THEN fillna0(re_df[k]) ELSE Num(0))

(* C23: after store, df_from_table returns for every implemented frame a   *)
(* frame whose values equal the stored frame's values on the stored        *)
(* frame's index, missing values counting as 0.                            *)
C23_RoundTrip ==
    call.op = "store" /\ pc = "returned" =>
        \A fname \in DOMAIN call.retrieved \ not_implemented :
            SameOnIndex(call.prob[fname], call.retrieved[fname])

(* C26: after store has raised, the database holds no row of the run.      *)
C26_FailedStoreLeavesNothing ==
    call.op = "store" /\ pc = "failed" =>
        \A r \in call.db : r.run_id # call.run_id

----------------------------------------------------------------------------
(* C24, C25: process capacities and edge equations of a solved model *)

\* Tau and every input and output flow of process p at vertex v are 0 in
\* every time step
ProcessIdle(v, p) ==
    /\ \A k \in process_time_index : k[1] = v /\ k[2] = p => sol.Tau[k] = 0
    /\ \A k \in process_input_index : k[1] = v /\ k[2] = p => sol.Epsilon_in[k] = 0
    /\ \A k \in process_output_index : k[1] = v /\ k[2] = p => sol.Epsilon_out[k] = 0

(* C24: in a satisfying assignment Kappa_process[v,p] is 0, with Tau and   *)
(* the process's flows 0 in every time step, or lies in [cap-min, cap-max] *)
(* with Phi[v,p] = 1; Tau[v,p,t] never exceeds Kappa_process[v,p].         *)
C24_ProcessCapacityAllOrNothing ==
    Solved =>
        /\ \A k \in process_index :
              \/ sol.Kappa_process[k] = 0 /\ ProcessIdle(k[1], k[2])
              \/ /\ data.process[k[2]].cap_min <= sol.Kappa_process[k]
                 /\ sol.Kappa_process[k] <= data.process[k[2]].cap_max
                 /\ sol.Phi[k] = 1
        /\ \A k \in process_time_index :
              sol.Tau[k] <= sol.Kappa_process[<<k[1], k[2]>>]

(* a solved model with a process that is built and runs *)
C24_Witness ==
    /\ Solved
    /\ \E k \in process_time_index :
          /\ sol.Tau[k] > 0
          /\ sol.Kappa_process[<<k[1], k[2]>>] >= data.process[k[2]].cap_min
          /\ data.process[k[2]].cap_min > 0

\* the edge equation of a transportable commodity, as the claim states it
SigmaWithinNetInflow(i, j, co, t) ==
    LET length == line_length(i, j)
    IN  LossDen * sol.Sigma[<<i, j, co, t>>]
            <= (LossDen - length * data.commodity[co].loss_var)
                   * (sol.Pin[<<i, j, co, t>>] + sol.Pin[<<j, i, co, t>>])
               - LossDen * (sol.Pot[<<i, j, co, t>>] + sol.Pot[<<j, i, co, t>>])
               - LossDen * (sol.Psi[<<i, j, co, t>>] + sol.Psi[<<j, i, co, t>>])
                   * length * data.commodity[co].loss_fix

(* C25: the edge equation is generated for every edge, commodity and time  *)
(* step; in a satisfying assignment Sigma of a transportable commodity is  *)
(* at most the net inflow of the edge after losses, and Sigma of a         *)
(* non-transportable commodity is 0, its peak being covered by the hubs'   *)
(* output alone.                                                           *)
C25_EdgeEquationForEveryCommodity ==
    Solved =>
        /\ cons.edge_equation =
              {<<e[1], e[2], co, t>> : e \in m_edge, co \in DOMAIN data.commodity,
                                       t \in DOMAIN data.time.rows}
        /\ \A k \in cons.edge_equation :
              IF data.commodity[k[3]].cap_max > 0
              THEN SigmaWithinNetInflow(k[1], k[2], k[3], k[4])
              ELSE /\ sol.Sigma[k] = 0
                   /\ k \in DOMAIN cons.peak_satisfaction =>
                         hub_balance(sol, k[1], k[2], k[3], k[4])
                             >= RatioDen * cons.peak_satisfaction[k]

(* a solved model whose demanded commodity is not transportable and has a  *)
(* positive peak                                                           *)
C25_Witness ==
    /\ Solved
    /\ \E k \in DOMAIN cons.peak_satisfaction :
          /\ data.commodity[k[3]].cap_max = 0
          /\ cons.peak_satisfaction[k] > 0
          /\ sol.Sigma[k] = 0

----------------------------------------------------------------------------
(* The loop body of run_bunch (src/runbunch.py, lines 164-249): solve,     *)
(* plot, analyse the graph, store.  results, fig and graph_results are     *)
(* local names of run_bunch; each holds the number of the pass that bound  *)
(* it last, and call.runs is what was stored, run by run.                  *)

\* the passes of the loop are 1..MaxRuns
MaxRuns == 3

\* a name no pass has bound yet
Unbound == 0

\* the value of a name after a try block that binds it unless it raises
bound_after(raises, before, now) == IF raises THEN before ELSE now

\* one pass of the loop.  Each of the four try blocks prints what it caught
\* and goes on (lines 183-190, 205-213, 216-226, 237-245).  Reading results
\* (line 191) or fig (line 234) while it is unbound is a NameError that ends
\* run_bunch; reading graph_results unbound happens inside the last try
\* block and is caught there.
RunVariant ==
    /\ pc = "call"
    /\ call.op = "solve_analyse_store"
    /\ call.counter <= MaxRuns
    /\ \E solve_raises \in BOOLEAN : \E plot_raises \in BOOLEAN :
       \E graph_raises \in BOOLEAN : \E db_raises \in BOOLEAN :
       LET n == call.counter
           results == bound_after(solve_raises, call.results, n)
           fig == bound_after(plot_raises, call.fig, n)
           graph_results == bound_after(graph_raises, call.graph_results, n)
           this_run == [run |-> n, status |-> results, plot_dict |-> fig,
                        graph_results |-> graph_results]
       IN  IF results = Unbound
           THEN /\ pc' = "failed"
                /\ err' = "NameError"
                /\ call' = call
           ELSE IF fig = Unbound
           THEN /\ pc' = "failed"
                /\ err' = "NameError"
                /\ call' = [call EXCEPT !.results = results,
                                        !.graph_results = graph_results]
           ELSE /\ pc' = IF n = MaxRuns THEN "returned" ELSE "call"
                /\ err' = err
                /\ call' = [call EXCEPT
                               !.counter = n + 1,
                               !.results = results,
                               !.fig = fig,
                               !.graph_results = graph_results,
                               !.runs = IF db_raises \/ graph_results = Unbound
                                        THEN @ ELSE Append(@, this_run)]
    /\ UNCHANGED <<data, vertex, edge, r_in, r_out, hub, peak, arcs, neighbours,
                   sets, cons, sol>>

InitRun ==
    /\ pc = "call"
    /\ Idle
    /\ call = [op |-> "solve_analyse_store", counter |-> 1, results |-> Unbound,
               fig |-> Unbound, graph_results |-> Unbound, runs |-> << >>]

NextRun == RunVariant

SpecRun == InitRun /\ [][NextRun]_vars

----------------------------------------------------------------------------
(* C27 *)

(* C27: the status and outcome, the plot and the graph-analysis results    *)
(* stored for a run are those the same pass of the loop produced.          *)
C27_StoredResultsAreCurrent ==
    call.op = "solve_analyse_store" =>
        \A k \in DOMAIN call.runs :
            /\ call.runs[k].status = call.runs[k].run
            /\ call.runs[k].plot_dict = call.runs[k].run
            /\ call.runs[k].graph_results = call.runs[k].run

----------------------------------------------------------------------------
(* C28, C29: the balances of the vertex equation and of the hub supply *)

\* the vertices of the vertex table that are an endpoint of no edge
IsolatedVertices ==
    {v \in DOMAIN vertex.rows :
        \A k \in DOMAIN edge.rows : edge.rows[k].Vertex1 # v /\ edge.rows[k].Vertex2 # v}

(* C28: the vertex balance constraint is generated for every vertex of the *)
(* vertex table, every commodity and every time step, also for a vertex    *)
(* that is an endpoint of no edge, and generating it does not fail.        *)
C28_VertexBalanceForEveryVertex ==
    DeclarationTried /\ err \notin {"set_index", "within", "peak_satisfaction"} =>
        /\ pc # "failed"
        /\ cons.vertex_equation =
              {<<v, co, t>> : v \in DOMAIN vertex.rows, co \in DOMAIN data.commodity,
                              t \in DOMAIN data.time.rows}

\* the processes with no 'In' tuple or no 'Out' tuple
OneSidedProcesses ==
    {p \in DOMAIN data.process : loc_index(r_in, p) = {} \/ loc_index(r_out, p) = {}}

(* C29: process_balance and hub_balance are evaluated without a lookup     *)
(* failure also when some process has no 'In' or no 'Out' tuple, so the    *)
(* constraints built on them are generated.                                *)
C29_BalancesTolerateOneSidedProcesses ==
    DeclarationTried /\ OneSidedProcesses # {} =>
        /\ err \notin {"hub_supply", "vertex_equation"}
        /\ pc # "failed" =>
              /\ cons.vertex_equation = vertex_equation_index
              /\ cons.hub_supply = edge_equation_index

----------------------------------------------------------------------------
(* The process constraints of the legacy builders (src/rivus.py and        *)
(* src/capmin.py) for one process at one vertex and time step.  The input  *)
(* ratios call.r_in are numerators over LegacyDen, and so are the input    *)
(* flows Epsilon_in; Tau is a whole number.                                *)

\* legacy input ratios are numerators over LegacyDen
LegacyDen == 5

\* the sum of the input flows, not weighted by their ratios
throughput_sum_unweighted(x, r) ==
    LegacyDen * SumOver([co \in DOMAIN r |-> x.Epsilon_in[co]], DOMAIN r)

\* throughput_sum(m, v, p, t): the sum over the input tuples of p of
\* Epsilon_in * r_in, a numerator over LegacyDen * LegacyDen
throughput_sum(x, r) ==
    SumOver([co \in DOMAIN r |-> x.Epsilon_in[co] * r[co]], DOMAIN r)

\* process_throughput_rule: Tau == throughput_sum
process_throughput_rule(x, r) ==
    LegacyDen * LegacyDen * x.Tau = throughput_sum(x, r)

\* process_input_rule of the legacy builders: Epsilon_in == Tau * r_in
legacy_process_input_rule(x, r, co) == x.Epsilon_in[co] = x.Tau * r[co]

\* the assignments of Tau and Epsilon_in that satisfy both rules
legacy_feasible(r) ==
    {x \in [Tau : Vals, Epsilon_in : [DOMAIN r -> 0..(MaxVal * LegacyDen)]] :
        /\ process_throughput_rule(x, r)
        /\ \A co \in DOMAIN r : legacy_process_input_rule(x, r, co)}

\* the solver returns an assignment that satisfies the legacy rules
SolveLegacy ==
    /\ pc = "call"
    /\ call.op = "legacy_process"
    /\ \E x \in legacy_feasible(call.r_in) : call' = [call EXCEPT !.x = x]
    /\ pc' = "returned"
    /\ UNCHANGED <<err, data, vertex, edge, r_in, r_out, hub, peak, arcs, neighbours,
                   sets, cons, sol>>

(* Inputs: a process of either legacy builder with any set of input        *)
(* commodities and any ratios in 1/LegacyDen .. 1.                         *)
InitLegacy ==
    /\ pc = "call"
    /\ Idle
    /\ \E builder \in Builders \ {"rivus/main/rivus.py"} :
       \E inputs \in SUBSET Commodity : \E r \in [inputs -> 1..LegacyDen] :
           call = [op |-> "legacy_process", builder |-> builder, r_in |-> r,
                   x |-> [Tau |-> 0, Epsilon_in |-> [co \in inputs |-> 0]]]

SpecLegacy == InitLegacy /\ [][SolveLegacy]_vars

----------------------------------------------------------------------------
(* C30 *)

\* the squared input ratios of the process sum to 1
SquaredRatiosSumToOne ==
    SumOver([co \in DOMAIN call.r_in |-> call.r_in[co] * call.r_in[co]], DOMAIN call.r_in)
        = LegacyDen * LegacyDen

====
